---- MODULE Spec2Model ----
(***************************************************************************)
(* TextViewer (src/src/app.js, second class TextViewer, lines 722-3341):   *)
(* encoding detection, line chunking and pagination, position translation  *)
(* and literal search with a wrap-around cursor.                           *)
(*                                                                         *)
(* Strings are sequences of one-character strings; a byte buffer is a      *)
(* sequence of integers 0..255.  JavaScript's null is the sentinel NULL.   *)
(***************************************************************************)
EXTENDS Integers, Sequences, FiniteSets, TLC

VARIABLES
    \* ---- detectEncodingFromBuffer
    buffer,              \* the byte sample handed to the detector
    detectStats,         \* the scores of the scan (logged at app.js:1769)
    detectedEncoding,    \* the label returned, "none" before the call
    \* ---- document, chunks, pages
    currentContent,      \* this.currentContent
    isElectron,          \* this.isElectron
    isLargeFile,         \* renderScrollView's isLargeFile for this document
    virtualScrolling,    \* this.virtualScrolling: enabled, chunkSize, totalChunks, chunks
    paging,              \* this.paging: linesPerPage, pages, totalPages, currentPage
    lineNumber,          \* argument of the last getPageFromLine call
    lastPagePosition,    \* this.lastPagePosition (app.js:1252)
    lastScrollTargetLine,\* this.lastScrollTargetLine (app.js:1257)
    \* ---- search
    searchInput,         \* this.elements.searchInput.value
    searchResults,       \* this.searchResults
    currentSearchIndex,  \* this.currentSearchIndex
    navHistory,          \* history: the cursor calls made since the last search, each
                         \*   with the cursor and the match count it started from
    \* ---- library and re-decoding
    files,               \* the files of the user: name, size and bytes
    books,               \* the book objects ever created, by object identity
    library,             \* this.library: the book objects in the library
    selectedBook,        \* this.selectedBook: a book object or NoBook
    currentView,         \* this.currentView
    pending,             \* the reads in flight: awaited promises and FileReaders
    loading,             \* the loading overlay is shown (showLoading)
    lastAlert,           \* what the handler that ran last reported: showError, showInfo
    \* ---- view mode
    viewMode,            \* this.viewMode
    turnAvailable,       \* jQuery and Turn.js are loaded
    pageBook,            \* the children of this.elements.pageBook: the rendered pages
    timers,              \* the setTimeout callbacks not yet run, with the delay left
    timerLog,            \* history: the last timer callback that ran and the mode it ran in
    \* ---- virtual scroll container
    scrollContent,       \* the children of this.elements.scrollContent
    scrollTop,           \* virtualScrolling.container.scrollTop
    clientHeight,        \* virtualScrolling.container.clientHeight
    \* ---- readFileContent
    file,                \* the File handed to readFileContent
    readResult,          \* what readFileContent resolved with, and how it got there
    chunkRead,           \* readFileInChunks: offset, content, the slices read so far
    \* ---- control
    lastCall,            \* the function or handler that ran last, "none" initially
    lastError            \* the exception that ended it, "none" if it returned

detectVars == <<buffer, detectStats, detectedEncoding>>
docVars    == <<currentContent, isElectron, isLargeFile, virtualScrolling>>
pageVars   == <<paging, lineNumber, lastPagePosition, lastScrollTargetLine>>
searchVars == <<searchInput, searchResults, currentSearchIndex, navHistory>>
libVars    == <<files, books, library, selectedBook, currentView, pending, loading,
               lastAlert>>
viewVars   == <<viewMode, turnAvailable, pageBook, timers, timerLog>>
scrollVars == <<scrollContent, scrollTop, clientHeight>>
readVars   == <<file, readResult, chunkRead>>
appVars    == <<libVars, viewVars, scrollVars, readVars>>
ctlVars    == <<lastCall, lastError>>
vars       == <<detectVars, docVars, pageVars, searchVars, appVars, ctlVars>>

-----------------------------------------------------------------------------
(* Bounds of the model *)

MaxBufLen == 4        \* longest byte sample, not counting a BOM it starts with
MaxTextLen == 3       \* longest document of the search specification, in characters
MaxQueryLen == 2      \* longest query
MaxCursorTextLen == 3 \* longest document of the cursor specification, in characters
MaxChunkSize == 2     \* largest chunkSize drawn
MaxDocLen == 4        \* longest document of the layout specifications, in characters
MaxLinesPerPage == 3  \* largest linesPerPage drawn
MaxLineNumber == 6    \* largest line number handed to getPageFromLine
MaxReadLen == 3       \* longest file handed to readFileContent, in bytes
ReadSliceLen == 2     \* bytes in a slice of readFileInChunks
ScrollStep == 10      \* distance between the scroll offsets drawn, in pixels
MaxClientHeight == 41 \* largest height of the scroll container, in pixels
MaxViewDocLen == 1    \* longest document of the view specification, in characters
MaxTimers == 3        \* most timers pending at a time
TimerStep == 50       \* milliseconds that pass in one step of the clock
MaxBooks == 2         \* book objects created in the library specification
MaxPending == 1       \* reads in flight at once
MaxSliceFileLen == 41 \* longest file readFileInChunks is run on step by step, in bytes

-----------------------------------------------------------------------------
(* Generic helpers *)

NULL == <<"<null>">>

Min(a, b) == IF a < b THEN a ELSE b
Max(a, b) == IF a > b THEN a ELSE b

\* Math.ceil(a / b) for a >= 0, b > 0
CeilDiv(a, b) == (a + b - 1) \div b

\* All sequences over S of length 0..n
SeqsUpTo(S, n) == UNION { [1..k -> S] : k \in 0..n }

\* Array.prototype.slice(start, end) with 0 <= start <= end <= length
Slice(s, start, end) == [k \in 1..(end - start) |-> s[start + k]]

RECURSIVE Flatten(_)
Flatten(ss) == IF ss = <<>> THEN <<>> ELSE Head(ss) \o Flatten(Tail(ss))

-----------------------------------------------------------------------------
(* detectEncodingFromBuffer, app.js:1671-1811 *)

\* Bytes the samples are drawn from: an ASCII byte, EUC-KR lead and trail bytes
\* (A1, A2 and B0, which also are UTF-8 continuation bytes), a UTF-8 2-byte lead
\* (C2), 3-byte lead (EA: EA B0 A1 is a Hangul syllable, EA A1 A1 is not), 4-byte
\* lead (F0) and a byte that is no lead (FF).
SampleBytes == {65, 161, 162, 176, 194, 234, 240, 255}

\* What a sample starts with: nothing, a BOM, or the first two bytes of one
SamplePrefixes == {<<>>, <<239, 187, 191>>, <<239, 187>>, <<254, 255>>, <<255, 254>>}

\* b & 0xE0, b & 0xF0, b & 0xF8, b & 0xC0, b & 0x0F, b & 0x3F on a byte
AndE0(b) == b - (b % 32)
AndF0(b) == b - (b % 16)
AndF8(b) == b - (b % 8)
AndC0(b) == b - (b % 64)
And0F(b) == b % 16
And3F(b) == b % 64

\* buffer[i] with JavaScript's 0-based index
ByteAt(buf, i) == buf[i + 1]

\* Mutation: the UTF-8 BOM is not looked for
BomCheckUtf16Only(buf) ==
    IF Len(buf) >= 3
    THEN IF ByteAt(buf, 0) = 254 /\ ByteAt(buf, 1) = 255
         THEN "UTF-16BE"
         ELSE IF ByteAt(buf, 0) = 255 /\ ByteAt(buf, 1) = 254
         THEN "UTF-16LE"
         ELSE "none"
    ELSE "none"

\* BOM check, app.js:1674-1691: the label, or "none" when the check falls through
BomCheck(buf) ==
    IF Len(buf) >= 3
    THEN IF ByteAt(buf, 0) = 239 /\ ByteAt(buf, 1) = 187 /\ ByteAt(buf, 2) = 191
         THEN "UTF-8"
         ELSE IF ByteAt(buf, 0) = 254 /\ ByteAt(buf, 1) = 255
         THEN "UTF-16BE"
         ELSE IF ByteAt(buf, 0) = 255 /\ ByteAt(buf, 1) = 254
         THEN "UTF-16LE"
         ELSE "none"
    ELSE "none"

\* EUC-KR score added at position i, app.js:1702-1713
EucKrGain(buf, i) ==
    IF i < Len(buf) - 1
    THEN LET byte1 == ByteAt(buf, i)
             byte2 == ByteAt(buf, i + 1)
         IN  (IF byte1 >= 176 /\ byte1 <= 200 /\ byte2 >= 161 /\ byte2 <= 254
              THEN 2 ELSE 0)
           + (IF byte1 >= 161 /\ byte1 <= 172 /\ byte2 >= 161 /\ byte2 <= 254
              THEN 1 ELSE 0)
    ELSE 0

\* Expected continuation bytes of a lead byte >= 0xC0, app.js:1721-1724
\* (0 with validSequence = false for 0xF8..0xFF)
BytesToCheck(byte1) ==
    IF AndE0(byte1) = 192 THEN 1
    ELSE IF AndF0(byte1) = 224 THEN 2
    ELSE IF AndF8(byte1) = 240 THEN 3
    ELSE 0

LeadValid(byte1) ==
    AndE0(byte1) = 192 \/ AndF0(byte1) = 224 \/ AndF8(byte1) = 240

\* The continuation loop, app.js:1727-1733: every continuation byte that is
\* inside the buffer has the 10xxxxxx pattern
ContinuationsValid(buf, i, bytesToCheck) ==
    \A j \in 1..bytesToCheck :
        (i + j < Len(buf)) => AndC0(ByteAt(buf, i + j)) = 128

\* utf8Score added by a well-formed sequence at i, app.js:1737-1746
Utf8Gain(buf, i, bytesToCheck) ==
    IF bytesToCheck = 2 /\ AndF0(ByteAt(buf, i)) = 224
    THEN LET codepoint == And0F(ByteAt(buf, i)) * 4096
                          + And3F(ByteAt(buf, i + 1)) * 64
                          + And3F(ByteAt(buf, i + 2))
         IN  IF codepoint >= 44032 /\ codepoint <= 55215 THEN 3
             ELSE IF codepoint >= 128 THEN 1
             ELSE 0
    ELSE 0

\* The scan loop, app.js:1699-1753, from position i with the scores so far
RECURSIVE ScanFrom(_, _, _)
ScanFrom(buf, i, st) ==
    IF i >= Len(buf) THEN st
    ELSE
      LET byte1 == ByteAt(buf, i)
          euc   == st.eucKrScore + EucKrGain(buf, i)
      IN  IF byte1 >= 192
          THEN LET bytesToCheck  == BytesToCheck(byte1)
                   validSequence == LeadValid(byte1)
                                    /\ ContinuationsValid(buf, i, bytesToCheck)
               IN  IF validSequence /\ i + bytesToCheck < Len(buf)
                   THEN ScanFrom(buf, i + bytesToCheck + 1,
                            [st EXCEPT !.eucKrScore = euc,
                                       !.utf8Score = @ + Utf8Gain(buf, i, bytesToCheck),
                                       !.validUtf8Sequences = @ + 1])
                   ELSE ScanFrom(buf, i + 1,
                            [st EXCEPT !.eucKrScore = euc,
                                       !.invalidUtf8Sequences = @ + 1])
          ELSE ScanFrom(buf, i + 1, [st EXCEPT !.eucKrScore = euc])

\* Mutation: the two counters are swapped, the ASCII bytes are counted
HighBitCountSwapped(buf) == Cardinality({k \in 1..Len(buf) : buf[k] <= 127})

\* app.js:1756-1765
HighBitCount(buf) == Cardinality({k \in 1..Len(buf) : buf[k] > 127})

NoStats == [eucKrScore |-> 0, utf8Score |-> 0, invalidUtf8Sequences |-> 0,
            validUtf8Sequences |-> 0, highBitCount |-> 0]

\* The statistics the function has gathered when it reaches its decision
ScanStats(buf) ==
    [ScanFrom(buf, 0, NoStats) EXCEPT !.highBitCount = HighBitCount(buf)]

\* Mutation: the ambiguous case falls back to UTF-8
DecideUtf8Default(st) ==
    IF st.highBitCount = 0 THEN "UTF-8"
    ELSE IF st.validUtf8Sequences > 0 /\ st.invalidUtf8Sequences = 0 /\ st.utf8Score > 0
    THEN "UTF-8"
    ELSE IF st.eucKrScore > st.utf8Score /\ st.eucKrScore > 0 THEN "EUC-KR"
    ELSE "UTF-8"

\* The decision, app.js:1778-1810
Decide(st) ==
    IF st.highBitCount = 0 THEN "UTF-8"
    ELSE IF st.validUtf8Sequences > 0 /\ st.invalidUtf8Sequences = 0 /\ st.utf8Score > 0
    THEN "UTF-8"
    ELSE IF st.eucKrScore > st.utf8Score /\ st.eucKrScore > 0 THEN "EUC-KR"
    ELSE IF st.utf8Score > 0 THEN "UTF-8"
    ELSE IF st.highBitCount > 0 THEN "EUC-KR"
    ELSE "UTF-8"

detectEncodingFromBuffer(buf) ==
    IF BomCheck(buf) # "none" THEN BomCheck(buf) ELSE Decide(ScanStats(buf))

-----------------------------------------------------------------------------
(* Text: String.prototype.split('\n'), Array.prototype.join('\n'), case *)

NL == "\n"

LowerCase == <<"a", "b", "c", "d", "e", "f", "g", "h", "i", "j", "k", "l", "m",
               "n", "o", "p", "q", "r", "s", "t", "u", "v", "w", "x", "y", "z">>
UpperCase == <<"A", "B", "C", "D", "E", "F", "G", "H", "I", "J", "K", "L", "M",
               "N", "O", "P", "Q", "R", "S", "T", "U", "V", "W", "X", "Y", "Z">>

\* The canonical form the 'i' flag compares: the character's upper case
ToUpper(c) ==
    IF \E k \in 1..26 : LowerCase[k] = c
    THEN UpperCase[CHOOSE k \in 1..26 : LowerCase[k] = c]
    ELSE c

\* text.split('\n'): always at least one line; "" gives [""]
\* The positions of the line breaks of a text, in increasing order
NewlinePositions(text) ==
    LET t == text \o <<>>
    IN  SelectSeq([i \in 1..Len(t) |-> i], LAMBDA i : t[i] = NL)

SplitLines(text) ==
    LET t   == text \o <<>>
        pos == NewlinePositions(t)
        n   == Len(pos)
    IN  [k \in 1..(n + 1) |->
            SubSeq(t, IF k = 1 THEN 1 ELSE pos[k - 1] + 1,
                      IF k = n + 1 THEN Len(t) ELSE pos[k] - 1)] \o <<>>

\* lines.join('\n')
RECURSIVE Join(_)
Join(lines) ==
    IF lines = <<>> THEN <<>>
    ELSE IF Len(lines) = 1 THEN lines[1]
    ELSE lines[1] \o <<NL>> \o Join(Tail(lines))

-----------------------------------------------------------------------------
(* Chunks: enableVirtualScrolling, app.js:2008-2027 *)

VisibleChunks == 3

\* The chunk list built by the loop at app.js:2014-2023 followed by
\* renderVisibleChunks (app.js:2122-2128), which renders the first chunks
BuildChunks(lines, chunkSize, totalChunks) ==
    [i \in 1..totalChunks |->
        LET start == (i - 1) * chunkSize
            end   == Min(start + chunkSize, Len(lines))
        IN  [index    |-> i - 1,
             lines    |-> Slice(lines, start, end),
             rendered |-> (i - 1) < Min(VisibleChunks, totalChunks)]]

\* Mutation: the chunk count is rounded down
enableVirtualScrollingFloor(vs, lines) ==
    [vs EXCEPT !.enabled = TRUE,
               !.totalChunks = Len(lines) \div vs.chunkSize,
               !.chunks = BuildChunks(lines, vs.chunkSize, Len(lines) \div vs.chunkSize)]

enableVirtualScrolling(vs, lines) ==
    [vs EXCEPT !.enabled = TRUE,
               !.totalChunks = CeilDiv(Len(lines), vs.chunkSize),
               !.chunks = BuildChunks(lines, vs.chunkSize,
                                      CeilDiv(Len(lines), vs.chunkSize))]

\* renderScrollView, app.js:1958-1979, on the chunk state: chunking is switched
\* off and switched on again for a large document
renderScrollViewChunks(vs, content, large) ==
    IF large THEN enableVirtualScrolling([vs EXCEPT !.enabled = FALSE], SplitLines(content))
    ELSE [vs EXCEPT !.enabled = FALSE]

\* renderScrollView, app.js:1967: the document is large
LargeFileChars == 100000
LargeFileLines == 1000

\* Mutation: the thresholds themselves count as large
IsLargeFileInclusive(content) ==
    Len(content) >= LargeFileChars \/ Len(SplitLines(content)) >= LargeFileLines

IsLargeFile(content) ==
    Len(content) > LargeFileChars \/ Len(SplitLines(content)) > LargeFileLines

\* What renderScrollView leaves in this.elements.scrollContent: the container
\* of setupVirtualScrollContainer (app.js:2029-2054) or the single <pre> of
\* displayFullContent (app.js:1994-2006)
renderScrollViewContent(content, large) ==
    IF large THEN <<[tag |-> "virtual-scroll-container", text |-> <<>>]>>
    ELSE <<[tag |-> "pre", text |-> content]>>

EstimatedLineHeight == 20

\* Math.floor(a / b) and Math.ceil(a / b) for a >= 0, b > 0
FloorDiv(a, b) == a \div b

\* The loop of renderChunkRange that evicts, app.js:2079-2087
EvictOutside(vs, startChunk, endChunk) ==
    [vs EXCEPT !.chunks =
        [i \in 1..Len(vs.chunks) |->
            IF vs.chunks[i].rendered
               /\ (vs.chunks[i].index < startChunk \/ vs.chunks[i].index > endChunk)
            THEN [vs.chunks[i] EXCEPT !.rendered = FALSE]
            ELSE vs.chunks[i]]]

\* renderChunk, app.js:2098-2120, on the chunk state
renderChunk(vs, chunkIndex) ==
    IF chunkIndex < 0 \/ chunkIndex >= Len(vs.chunks) THEN vs
    ELSE [vs EXCEPT !.chunks[chunkIndex + 1].rendered = TRUE]

\* The loop of renderChunkRange that renders, app.js:2090-2092
RECURSIVE RenderFrom(_, _, _)
RenderFrom(vs, i, endChunk) ==
    IF i > endChunk THEN vs ELSE RenderFrom(renderChunk(vs, i), i + 1, endChunk)

\* Mutation: chunks that left the range stay rendered
renderChunkRangeNoEviction(vs, startChunk, endChunk) ==
    RenderFrom(vs, startChunk, endChunk)

\* renderChunkRange, app.js:2077-2093
renderChunkRange(vs, startChunk, endChunk) ==
    RenderFrom(EvictOutside(vs, startChunk, endChunk), startChunk, endChunk)

\* handleVirtualScroll, app.js:2056-2075, on the chunk state
handleVirtualScroll(vs, top, height) ==
    IF ~vs.enabled THEN vs
    ELSE LET startLine  == FloorDiv(top, EstimatedLineHeight)
             endLine    == CeilDiv(top + height, EstimatedLineHeight)
             startChunk == FloorDiv(startLine, vs.chunkSize)
             endChunk   == Min(CeilDiv(endLine, vs.chunkSize), vs.totalChunks - 1)
         IN  renderChunkRange(vs, startChunk, endChunk)

-----------------------------------------------------------------------------
(* Search: findInText, performVirtualSearch, app.js:2299-2344 *)

\* The characters query.replace escapes, app.js:2317
RegExpSpecials == {".", "*", "+", "?", "^", "$", "{", "}", "(", ")", "|", "[", "]", "\\"}

\* Mutation: the dot is missing from the escaped characters
RECURSIVE EscapeRegExpNoDot(_)
EscapeRegExpNoDot(q) ==
    IF q = <<>> THEN <<>>
    ELSE (IF Head(q) \in RegExpSpecials \ {"."} THEN <<"\\", Head(q)>> ELSE <<Head(q)>>)
         \o EscapeRegExpNoDot(Tail(q))

\* query.replace(/[.*+?^${}()|[\]\\]/g, '\\$&')
RECURSIVE EscapeRegExp(_)
EscapeRegExp(q) ==
    IF q = <<>> THEN <<>>
    ELSE (IF Head(q) \in RegExpSpecials THEN <<"\\", Head(q)>> ELSE <<Head(q)>>)
         \o EscapeRegExp(Tail(q))

\* new RegExp(source, 'gi') as a sequence of one-character atoms: a backslash
\* makes the next character a literal, an unescaped dot matches any character
\* but a line terminator, any other character is a literal.
RECURSIVE ParseRegExp(_)
ParseRegExp(src) ==
    IF src = <<>> THEN <<>>
    ELSE IF Head(src) = "\\" /\ Len(src) >= 2
    THEN <<[kind |-> "char", ch |-> src[2]]>> \o ParseRegExp(Tail(Tail(src)))
    ELSE IF Head(src) = "."
    THEN <<[kind |-> "any", ch |-> "."]>> \o ParseRegExp(Tail(src))
    ELSE <<[kind |-> "char", ch |-> Head(src)]>> \o ParseRegExp(Tail(src))

AtomMatches(atom, c) ==
    IF atom.kind = "any" THEN c # NL ELSE ToUpper(atom.ch) = ToUpper(c)

\* The pattern matches text at 0-based position pos
MatchesAt(atoms, text, pos) ==
    /\ pos + Len(atoms) <= Len(text)
    /\ \A k \in 1..Len(atoms) : AtomMatches(atoms[k], text[pos + k])

\* The regex.exec loop, app.js:2320-2327: leftmost match at or after lastIndex,
\* then lastIndex moves to the end of the match
RECURSIVE ExecAll(_, _, _)
ExecAll(atoms, text, lastIndex) ==
    LET hits == {p \in lastIndex..(Len(text) - Len(atoms)) : MatchesAt(atoms, text, p)}
    IN  IF hits = {} THEN <<>>
        ELSE LET p == CHOOSE h \in hits : \A g \in hits : h <= g
             IN  <<[index |-> p, text |-> Slice(text, p, p + Len(atoms))]>>
                 \o ExecAll(atoms, text, p + Len(atoms))

\* JavaScript truthiness of a string argument that may be null
Truthy(content) == content # NULL /\ content # <<>>

NoChunk == -1    \* chunkIndex: null

\* getChunkIndexForPosition, app.js:2332-2344, over the chunk texts from chunk i
\* (1-based) on, with currentPos the offset of that chunk
RECURSIVE ChunkIndexFrom(_, _, _, _)
ChunkIndexFrom(chunks, i, currentPos, position) ==
    IF i > Len(chunks) THEN NoChunk
    ELSE LET chunkText == Join(chunks[i].lines)
         IN  IF position >= currentPos /\ position < currentPos + Len(chunkText)
             THEN i - 1
             ELSE ChunkIndexFrom(chunks, i + 1, currentPos + Len(chunkText) + 1, position)

getChunkIndexForPosition(vs, position) ==
    IF ~vs.enabled THEN NoChunk ELSE ChunkIndexFrom(vs.chunks, 1, 0, position)

\* findInText(query, content = null, offset = 0), app.js:2314-2330, reading
\* this.currentContent (cur) and this.virtualScrolling (vs)
findInText(query, content, offset, cur, vs) ==
    LET searchContent == IF Truthy(content) THEN content ELSE cur
        regex == ParseRegExp(EscapeRegExp(query))
        found == ExecAll(regex, searchContent, 0)
    IN  [k \in 1..Len(found) |->
            [index      |-> found[k].index + offset,
             length     |-> Len(found[k].text),
             text       |-> found[k].text,
             chunkIndex |-> IF Truthy(content)
                            THEN getChunkIndexForPosition(vs, found[k].index + offset)
                            ELSE NoChunk]]

\* performVirtualSearch's forEach, app.js:2304-2309, from chunk i (1-based) on
RECURSIVE VirtualSearchFrom(_, _, _, _, _)
VirtualSearchFrom(query, i, globalIndex, cur, vs) ==
    IF i > Len(vs.chunks) THEN <<>>
    ELSE LET chunkText == Join(vs.chunks[i].lines)
         IN  findInText(query, chunkText, globalIndex, cur, vs)
             \o VirtualSearchFrom(query, i + 1, globalIndex + Len(chunkText) + 1, cur, vs)

performVirtualSearch(query, cur, vs) == VirtualSearchFrom(query, 1, 0, cur, vs)

-----------------------------------------------------------------------------
(* Pages: preparePagingData, app.js:1906-1948; position translation *)

CoverPage == [pageNumber |-> 0, lines |-> <<>>, isCover |-> TRUE]

\* The content pages built by the loop at app.js:1929-1941
ContentPages(lines, linesPerPage, count) ==
    [i \in 1..count |->
        LET start == (i - 1) * linesPerPage
            end   == Min(start + linesPerPage, Len(lines))
        IN  [pageNumber |-> i,
             lines      |-> Slice(lines, start, end),
             isCover    |-> FALSE]]

\* Mutation: the page count is rounded down
preparePagingDataFloor(pg, lines, electron) ==
    LET pages == (IF electron THEN <<CoverPage>> ELSE <<>>)
                 \o ContentPages(lines, pg.linesPerPage, Len(lines) \div pg.linesPerPage)
    IN  [pg EXCEPT !.pages = pages,
                   !.totalPages = Len(pages),
                   !.currentPage = IF electron THEN 2 ELSE 1]

\* Mutation: totalPages keeps the count of content pages (app.js:1944 left out)
preparePagingDataNoRecount(pg, lines, electron) ==
    LET count == CeilDiv(Len(lines), pg.linesPerPage)
        pages == (IF electron THEN <<CoverPage>> ELSE <<>>)
                 \o ContentPages(lines, pg.linesPerPage, count)
    IN  [pg EXCEPT !.pages = pages,
                   !.totalPages = count,
                   !.currentPage = IF electron THEN 2 ELSE 1]

preparePagingData(pg, lines, electron) ==
    LET pages == (IF electron THEN <<CoverPage>> ELSE <<>>)
                 \o ContentPages(lines, pg.linesPerPage,
                                 CeilDiv(Len(lines), pg.linesPerPage))
    IN  [pg EXCEPT !.pages = pages,
                   !.totalPages = Len(pages),
                   !.currentPage = IF electron THEN 2 ELSE 1]

\* cleanupPageMode, app.js:1292-1321, on the paging record
cleanupPageMode(pg) == [pg EXCEPT !.pages = <<>>, !.turnInstance = NULL]

\* getFirstLineFromCurrentPage, app.js:1529-1546
getFirstLineFromCurrentPage(pg, electron) ==
    IF pg.currentPage <= 0 THEN 0
    ELSE LET pageIndex == IF electron /\ pg.currentPage > 1
                          THEN pg.currentPage - 2
                          ELSE pg.currentPage - 1
         IN  IF pageIndex < 0 THEN 0 ELSE pageIndex * pg.linesPerPage

\* Mutation: the cover page is not counted
getPageFromLineNoCover(line, pg, electron) == (line \div pg.linesPerPage) + 1

\* getPageFromLine, app.js:1551-1560
getPageFromLine(line, pg, electron) ==
    LET pageIndex == line \div pg.linesPerPage
    IN  IF electron THEN pageIndex + 2 ELSE pageIndex + 1

-----------------------------------------------------------------------------
(* Reading a file: detectFileEncoding, readFileContent, readFileInChunks,      *)
(* app.js:1646-1874.  FileReader.readAsText is modelled by the decoder of the  *)
(* encoding it is given: a decoded character is a one-character string for an  *)
(* ASCII byte and a string naming the decoder and the bytes otherwise.         *)

ReplacementChar == "U+FFFD"

AsciiChar(b) ==
    CASE b = 10 -> NL
      [] b = 46 -> "."
      [] b = 65 -> "A"
      [] b = 97 -> "a"
      [] b = 98 -> "b"
      [] OTHER  -> "ascii" \o ToString(b)

IsContinuation(buf, i) == i <= Len(buf) /\ buf[i] \in 128..191

\* Continuation bytes that follow byte i, n at most
ContinuationsAfter(buf, i, n) ==
    IF n >= 1 /\ IsContinuation(buf, i + 1)
    THEN IF n >= 2 /\ IsContinuation(buf, i + 2)
         THEN IF n >= 3 /\ IsContinuation(buf, i + 3) THEN 3 ELSE 2
         ELSE 1
    ELSE 0

\* Continuation bytes the lead byte b asks for, 0 when b is no lead byte
Utf8Needed(b) ==
    IF b \in 194..223 THEN 1
    ELSE IF b \in 224..239 THEN 2
    ELSE IF b \in 240..244 THEN 3
    ELSE 0

\* The UTF-8 decoder at byte i (1-based): the character and the bytes it takes.
\* A sequence that is cut off, by another byte or by the end of the input,
\* decodes to one U+FFFD for the lead byte and the continuation bytes it has.
Utf8CharAt(buf, i) ==
    LET b      == buf[i]
        needed == Utf8Needed(b)
        found  == ContinuationsAfter(buf, i, needed)
    IN  IF b < 128 THEN [char |-> AsciiChar(b), width |-> 1]
        ELSE IF needed > 0 /\ found = needed
        THEN [char |-> "utf8" \o ToString(SubSeq(buf, i, i + needed)),
              width |-> needed + 1]
        ELSE [char |-> ReplacementChar, width |-> 1 + found]

\* The EUC-KR decoder at byte i: two bytes of A1..FE make one character
EucKrCharAt(buf, i) ==
    LET b == buf[i]
    IN  IF b < 128 THEN [char |-> AsciiChar(b), width |-> 1]
        ELSE IF b \in 161..254 /\ i + 1 <= Len(buf) /\ buf[i + 1] \in 161..254
        THEN [char |-> "euckr" \o ToString(SubSeq(buf, i, i + 1)), width |-> 2]
        ELSE [char |-> ReplacementChar, width |-> 1]

\* ISO-8859-1: every byte is a character
Latin1CharAt(buf, i) ==
    LET b == buf[i]
    IN  IF b < 128 THEN [char |-> AsciiChar(b), width |-> 1]
        ELSE [char |-> "latin1" \o ToString(b), width |-> 1]

\* UTF-16: two bytes make a code unit, a trailing odd byte is replaced
Utf16CharAt(buf, i, encoding) ==
    IF i + 1 <= Len(buf)
    THEN [char |-> encoding \o ToString(SubSeq(buf, i, i + 1)), width |-> 2]
    ELSE [char |-> ReplacementChar, width |-> 1]

CharAt(buf, i, encoding) ==
    CASE encoding = "UTF-8"               -> Utf8CharAt(buf, i)
      [] encoding \in {"EUC-KR", "CP949"} -> EucKrCharAt(buf, i)
      [] encoding = "ISO-8859-1"          -> Latin1CharAt(buf, i)
      [] OTHER                            -> Utf16CharAt(buf, i, encoding)

RECURSIVE DecodeFrom(_, _, _)
DecodeFrom(buf, i, encoding) ==
    IF i > Len(buf) THEN <<>>
    ELSE LET c == CharAt(buf, i, encoding)
         IN  <<c.char>> \o DecodeFrom(buf, i + c.width, encoding)

\* reader.readAsText(blob, encoding)
readAsText(buf, encoding) == DecodeFrom(buf, 1, encoding)

\* detectFileEncoding, app.js:1646-1666: the detector on the first 1024 bytes,
\* 'UTF-8' when reading the sample fails
SampleSize == 1024

detectFileEncoding(f, sampleFails) ==
    IF sampleFails THEN "UTF-8"
    ELSE detectEncodingFromBuffer(SubSeq(f.bytes, 1, Min(Len(f.bytes), SampleSize)))

\* readFileInChunks, app.js:1847-1865: the file is cut into slices, each slice
\* is decoded as UTF-8 on its own (readChunk, app.js:1867-1874) and the texts
\* are concatenated
RECURSIVE ReadSlicesFrom(_, _, _)
ReadSlicesFrom(buf, offset, sliceLen) ==
    IF offset >= Len(buf) THEN <<>>
    ELSE readAsText(SubSeq(buf, offset + 1, Min(offset + sliceLen, Len(buf))), "UTF-8")
         \o ReadSlicesFrom(buf, offset + sliceLen, sliceLen)

readFileInChunks(f, sliceLen) == ReadSlicesFrom(f.bytes, 0, sliceLen)

\* 50 * 1024 * 1024, app.js:1815
SlicedReadLimit == 52428800

\* Mutation: a file of exactly 50 MB takes the sliced path
readFileContentInclusive(f, sliceLen, sampleFails) ==
    IF f.size >= SlicedReadLimit
    THEN [content  |-> readFileInChunks(f, sliceLen),
          encoding |-> "UTF-8",
          path     |-> "sliced",
          detected |-> "not run"]
    ELSE LET detectedEncoding_ == detectFileEncoding(f, sampleFails)
         IN  [content  |-> readAsText(f.bytes, detectedEncoding_),
              encoding |-> detectedEncoding_,
              path     |-> "whole",
              detected |-> detectedEncoding_]

\* readFileContent, app.js:1813-1845, when no read fails: what it resolves with,
\* the path it took and what the detector returned
readFileContent(f, sliceLen, sampleFails) ==
    IF f.size > SlicedReadLimit
    THEN [content  |-> readFileInChunks(f, sliceLen),
          encoding |-> "UTF-8",
          path     |-> "sliced",
          detected |-> "not run"]
    ELSE LET detectedEncoding_ == detectFileEncoding(f, sampleFails)
         IN  [content  |-> readAsText(f.bytes, detectedEncoding_),
              encoding |-> detectedEncoding_,
              path     |-> "whole",
              detected |-> detectedEncoding_]

\* The promise of readFileContent rejects: reader.onerror, app.js:1838-1840, or
\* readChunk's, app.js:1871
NoResult == [content |-> NULL, encoding |-> "none", path |-> "none", detected |-> "none"]

Rejected == [content |-> NULL, encoding |-> "none", path |-> "rejected", detected |-> "none"]

\* 10, app.js:1859: a pause of the loop after every 10 slices
SlicesPerYield == 10

\* readFileInChunks, app.js:1847-1865, as a loop: its local variables offset
\* and content, whether it waits in the pause of app.js:1860, how it ended and
\* what it returned; reads and yields are history: the byte ranges handed to
\* readChunk, and the number of slices read at each pause
LoopStart ==
    [status |-> "running", offset |-> 0, content |-> <<>>, yielding |-> FALSE,
     result |-> NULL, reads |-> <<>>, yields |-> <<>>]

NotReading == [LoopStart EXCEPT !.status = "not called"]

\* file.slice(start, end), app.js:1853: the bytes from start up to end or the
\* end of the file
FileSlice(f, start, end) == SubSeq(f.bytes, start + 1, Min(end, Len(f.bytes)))

\* Mutation: the pause comes after every slice but the multiples of 10
AfterSliceYieldsInverted(cr, f, sliceLen) ==
    LET offset_ == cr.offset + sliceLen
    IN  [cr EXCEPT !.offset = offset_,
                   !.content = @ \o readAsText(FileSlice(f, cr.offset, offset_), "UTF-8"),
                   !.reads = Append(@, <<cr.offset, Min(offset_, f.size)>>),
                   !.yielding = (offset_ % (sliceLen * SlicesPerYield) # 0),
                   !.yields = IF offset_ % (sliceLen * SlicesPerYield) # 0
                              THEN Append(@, Len(cr.reads) + 1) ELSE @]

\* One pass of the loop body, app.js:1853-1861, readChunk having resolved
AfterSlice(cr, f, sliceLen) ==
    LET offset_ == cr.offset + sliceLen
    IN  [cr EXCEPT !.offset = offset_,
                   !.content = @ \o readAsText(FileSlice(f, cr.offset, offset_), "UTF-8"),
                   !.reads = Append(@, <<cr.offset, Min(offset_, f.size)>>),
                   !.yielding = (offset_ % (sliceLen * SlicesPerYield) = 0),
                   !.yields = IF offset_ % (sliceLen * SlicesPerYield) = 0
                              THEN Append(@, Len(cr.reads) + 1) ELSE @]

-----------------------------------------------------------------------------
(* The state the constructor builds, app.js:726-790 *)

ChunkSize == 1000
LinesPerPage == 30

NewVirtualScrolling ==
    [enabled |-> FALSE, chunkSize |-> ChunkSize, totalChunks |-> 0, chunks |-> <<>>]

NewPaging ==
    [linesPerPage |-> LinesPerPage, pages |-> <<>>, totalPages |-> 0, currentPage |-> 1,
     turnInstance |-> NULL]

\* initializeElements, app.js:800-849, builds no 'textContent' entry, so
\* this.elements.textContent is undefined
HasTextContentElement == FALSE

DetectIdle ==
    /\ buffer = <<>>
    /\ detectStats = NoStats
    /\ detectedEncoding = "none"

DocIdle ==
    /\ currentContent = <<>>
    /\ isElectron = FALSE
    /\ isLargeFile = FALSE
    /\ virtualScrolling = NewVirtualScrolling

PageIdle ==
    /\ paging = NewPaging
    /\ lineNumber = 0
    /\ lastPagePosition = 1
    /\ lastScrollTargetLine = 0

SearchIdle ==
    /\ searchInput = <<>>
    /\ searchResults = <<>>
    /\ currentSearchIndex = -1
    /\ navHistory = <<>>

NoBook == 0

LibIdle ==
    /\ files = <<>>
    /\ books = <<>>
    /\ library = <<>>
    /\ selectedBook = NoBook
    /\ currentView = "library"
    /\ pending = {}
    /\ loading = FALSE
    /\ lastAlert = "none"

\* No timer callback has run
NoRun == [callback |-> "none", viewMode |-> "none", wrotePage |-> FALSE]

ViewIdle ==
    /\ viewMode = "scroll"
    /\ turnAvailable = FALSE
    /\ pageBook = <<>>
    /\ timers = {}
    /\ timerLog = NoRun

ScrollIdle ==
    /\ scrollContent = <<>>
    /\ scrollTop = 0
    /\ clientHeight = 0

ReadIdle ==
    /\ file = [size |-> 0, bytes |-> <<>>]
    /\ readResult = NoResult
    /\ chunkRead = NotReading

AppIdle == LibIdle /\ ViewIdle /\ ScrollIdle /\ ReadIdle

CtlIdle ==
    /\ lastCall = "none"
    /\ lastError = "none"

-----------------------------------------------------------------------------
(* Specification SpecDetect: the detector applied to a byte sample *)

InitDetect ==
    /\ buffer \in {pre \o rest : pre \in SamplePrefixes,
                                  rest \in SeqsUpTo(SampleBytes, MaxBufLen)}
    /\ detectStats = NoStats
    /\ detectedEncoding = "none"
    /\ DocIdle /\ PageIdle /\ SearchIdle /\ CtlIdle
    /\ AppIdle

DetectEncoding ==
    /\ detectedEncoding = "none"
    /\ detectStats' = IF BomCheck(buffer) # "none" THEN NoStats ELSE ScanStats(buffer)
    /\ detectedEncoding' = detectEncodingFromBuffer(buffer)
    /\ lastCall' = "detectEncodingFromBuffer"
    /\ UNCHANGED <<buffer, docVars, pageVars, searchVars, lastError>>
    /\ UNCHANGED appVars

NextDetect == DetectEncoding

SpecDetect == InitDetect /\ [][NextDetect]_vars

-----------------------------------------------------------------------------
(* Specification SpecRead: readFileContent on a file.  A file of more than 50  *)
(* MB is out of reach, so file.size is drawn apart from the bytes the model    *)
(* carries for the file, and the slices of readFileInChunks (1 MB in the code) *)
(* are ReadSliceLen bytes long.                                                *)

ReadBytes == {10, 97, 161, 176, 234}

LargeSizes == {SlicedReadLimit - 1, SlicedReadLimit, SlicedReadLimit + 1}

InitRead ==
    /\ \E b \in SeqsUpTo(ReadBytes, MaxReadLen) :
       \E size \in {Len(b)} \cup LargeSizes :
          file = [size |-> size, bytes |-> b]
    /\ readResult = NoResult
    /\ chunkRead = NotReading
    /\ ScrollIdle /\ ViewIdle /\ LibIdle
    /\ DetectIdle /\ DocIdle /\ PageIdle /\ SearchIdle /\ CtlIdle

\* await this.readFileContent(file), resolved
ReadFileContent ==
    /\ readResult = NoResult
    /\ \E sampleFails \in BOOLEAN :
          readResult' = readFileContent(file, ReadSliceLen, sampleFails)
    /\ lastCall' = "readFileContent"
    /\ UNCHANGED <<file, chunkRead, lastError>>
    /\ UNCHANGED <<detectVars, docVars, pageVars, searchVars, libVars, viewVars, scrollVars>>

\* await this.readFileContent(file), rejected
ReadFileContentFails ==
    /\ readResult = NoResult
    /\ readResult' = Rejected
    /\ lastCall' = "readFileContent"
    /\ lastError' = "Error"
    /\ UNCHANGED <<file, chunkRead>>
    /\ UNCHANGED <<detectVars, docVars, pageVars, searchVars, libVars, viewVars, scrollVars>>

NextRead == ReadFileContent \/ ReadFileContentFails

SpecRead == InitRead /\ [][NextRead]_vars

-----------------------------------------------------------------------------
(* Specification SpecSlices: readFileInChunks on a file, one step for every    *)
(* slice read and every pause.  The slices are ReadSliceLen bytes long.  Under *)
(* SpecSlicesFair every read that has been started completes, with the text or *)
(* with an error, and every pause ends.                                        *)

InitSlices ==
    /\ \E n \in 1..MaxSliceFileLen :
          file = [size |-> n, bytes |-> [i \in 1..n |-> 97]]
    /\ readResult = NoResult
    /\ chunkRead = LoopStart
    /\ ScrollIdle /\ ViewIdle /\ LibIdle
    /\ DetectIdle /\ DocIdle /\ PageIdle /\ SearchIdle /\ CtlIdle

slicesFrame == <<file, readResult, lastError, detectVars, docVars, pageVars, searchVars,
                 libVars, viewVars, scrollVars>>

\* app.js:1852-1861: the loop condition holds, readChunk resolves
ReadChunkResolved ==
    /\ chunkRead.status = "running"
    /\ ~chunkRead.yielding
    /\ chunkRead.offset < file.size
    /\ chunkRead' = AfterSlice(chunkRead, file, ReadSliceLen)
    /\ lastCall' = "readChunk"
    /\ UNCHANGED slicesFrame

\* app.js:1854 with reader.onerror, app.js:1871: readChunk rejects, and so
\* does readFileInChunks
ReadChunkRejected ==
    /\ chunkRead.status = "running"
    /\ ~chunkRead.yielding
    /\ chunkRead.offset < file.size
    /\ chunkRead' = [chunkRead EXCEPT !.status = "rejected",
                                      !.reads = Append(@, <<chunkRead.offset,
                                                   Min(chunkRead.offset + ReadSliceLen,
                                                       file.size)>>)]
    /\ lastCall' = "readChunk rejected"
    /\ UNCHANGED slicesFrame

\* app.js:1860: the timer of the pause has fired
PauseEnds ==
    /\ chunkRead.status = "running"
    /\ chunkRead.yielding
    /\ chunkRead' = [chunkRead EXCEPT !.yielding = FALSE]
    /\ lastCall' = "setTimeout"
    /\ UNCHANGED slicesFrame

\* app.js:1852 and 1864: the loop condition fails, content is returned
ReturnContent ==
    /\ chunkRead.status = "running"
    /\ ~chunkRead.yielding
    /\ chunkRead.offset >= file.size
    /\ chunkRead' = [chunkRead EXCEPT !.status = "resolved", !.result = chunkRead.content]
    /\ lastCall' = "readFileInChunks"
    /\ UNCHANGED slicesFrame

NextSlices ==
    \/ ReadChunkResolved
    \/ ReadChunkRejected
    \/ PauseEnds
    \/ ReturnContent

SpecSlices == InitSlices /\ [][NextSlices]_vars

SpecSlicesFair == SpecSlices /\ WF_vars(NextSlices)

-----------------------------------------------------------------------------
(* Specification SpecSearch: a displayed document, a query typed into the     *)
(* search box, and the search handlers.  The documents are scaled down: the   *)
(* sizes at which renderScrollView chunks a document (more than 100000        *)
(* characters or 1000 lines, chunks of 1000 lines) are out of reach, so       *)
(* isLargeFile and chunkSize are drawn.                                       *)

TextAlphabet  == {"a", "A", ".", NL}
QueryAlphabet == {"a", ".", NL}

\* The document Hello/world/Hello/again and the query hello
HelloText == <<"H", "e", "l", "l", "o", NL, "w", "o", "r", "l", "d", NL,
               "H", "e", "l", "l", "o", NL, "a", "g", "a", "i", "n">>
HelloQuery == <<"h", "e", "l", "l", "o">>

InitSearch ==
    /\ \/ /\ currentContent \in SeqsUpTo(TextAlphabet, MaxTextLen)
          /\ searchInput \in SeqsUpTo(QueryAlphabet, MaxQueryLen) \ {<<>>}
       \/ /\ currentContent = HelloText
          /\ searchInput = HelloQuery
    /\ isElectron = FALSE
    /\ isLargeFile \in BOOLEAN
    /\ \E cs \in (IF isLargeFile THEN 1..MaxChunkSize ELSE {ChunkSize}) :
          virtualScrolling =
              renderScrollViewChunks([NewVirtualScrolling EXCEPT !.chunkSize = cs],
                                     currentContent, isLargeFile)
    /\ paging = cleanupPageMode(preparePagingData(NewPaging, SplitLines(currentContent),
                                                  isElectron))
    /\ lineNumber = 0
    /\ lastPagePosition = 1
    /\ lastScrollTargetLine = 0
    /\ searchResults = <<>>
    /\ currentSearchIndex = -1
    /\ navHistory = <<>>
    /\ DetectIdle /\ CtlIdle
    /\ AppIdle

\* scrollToVirtualResult, app.js:2425-2444, on the chunk state
scrollToVirtualResult(vs, results, idx) ==
    IF idx < 0 \/ idx >= Len(results) THEN vs
    ELSE IF results[idx + 1].chunkIndex # NoChunk
    THEN renderChunk(vs, results[idx + 1].chunkIndex)
    ELSE vs

\* highlightSearchResults, app.js:2346-2369, dereferences this.elements.textContent
\* once there is a match to mark
HighlightThrows(results) == Len(results) > 0 /\ ~HasTextContentElement

\* clearSearchHighlights, app.js:2371-2376, dereferences it always
ClearHighlightsThrows == ~HasTextContentElement

\* The markup of one match, app.js:2358-2362
HighlightClass(isCurrentResult) ==
    <<"h", "i", "g", "h", "l", "i", "g", "h", "t">>
        \o (IF isCurrentResult THEN <<" ", "c", "u", "r", "r", "e", "n", "t">> ELSE <<>>)

Highlighted(text, isCurrentResult) ==
    <<"<", "s", "p", "a", "n", " ", "c", "l", "a", "s", "s", "=", "\"">>
        \o HighlightClass(isCurrentResult) \o <<"\"", ">">>
        \o text \o <<"<", "/", "s", "p", "a", "n", ">">>

\* The loop of highlightSearchResults, app.js:2356-2366, from result i
\* (1-based) down to the first
RECURSIVE WrapMatchesFrom(_, _, _, _)
WrapMatchesFrom(content, results, idx, i) ==
    IF i < 1 THEN content
    ELSE LET result == results[i]
             before == SubSeq(content, 1, result.index)
             after  == SubSeq(content, result.index + result.length + 1, Len(content))
         IN  WrapMatchesFrom(before \o Highlighted(result.text, i - 1 = idx) \o after,
                             results, idx, i - 1)

\* What the <pre> of the text holds when no handler has written it
NotWritten == <<"<not written>">>

\* highlightSearchResults, app.js:2346-2369: what it leaves in pre.innerHTML,
\* and whether it ended with an exception
highlightSearchResults(results, idx, content) ==
    IF Len(results) = 0 THEN [threw |-> FALSE, pre |-> NotWritten]
    ELSE IF ~HasTextContentElement THEN [threw |-> TRUE, pre |-> NotWritten]
    ELSE [threw |-> FALSE, pre |-> WrapMatchesFrom(content, results, idx, Len(results))]

\* clearSearchHighlights, app.js:2371-2376, likewise with pre.textContent
clearSearchHighlights(content) ==
    IF ~HasTextContentElement THEN [threw |-> TRUE, pre |-> NotWritten]
    ELSE [threw |-> FALSE, pre |-> content]

FirstIndex(results) == IF Len(results) > 0 THEN 0 ELSE -1

\* performSearch, app.js:2273-2297
performSearch ==
    /\ lastCall' = "performSearch"
    /\ navHistory' = <<>>
    /\ IF searchInput = <<>> \/ currentContent = <<>>
       THEN /\ IF ClearHighlightsThrows
               THEN /\ UNCHANGED <<searchResults, currentSearchIndex>>
                    /\ lastError' = "TypeError"
               ELSE /\ searchResults' = <<>>
                    /\ currentSearchIndex' = -1
                    /\ lastError' = "none"
            /\ UNCHANGED virtualScrolling
       ELSE IF virtualScrolling.enabled
       THEN LET found == performVirtualSearch(searchInput, currentContent, virtualScrolling)
            IN  /\ searchResults' = found
                /\ currentSearchIndex' = FirstIndex(found)
                /\ virtualScrolling' =
                       scrollToVirtualResult(virtualScrolling, found, FirstIndex(found))
                /\ lastError' = "none"
       ELSE LET found == findInText(searchInput, NULL, 0, currentContent, virtualScrolling)
            IN  /\ searchResults' = found
                /\ currentSearchIndex' = FirstIndex(found)
                /\ lastError' = IF HighlightThrows(found) THEN "TypeError" ELSE "none"
                /\ UNCHANGED virtualScrolling
    /\ UNCHANGED <<currentContent, isElectron, isLargeFile, searchInput>>
    /\ UNCHANGED <<detectVars, pageVars>>
    /\ UNCHANGED appVars

\* Mutation: the cursor stops at the last match
NextIndexClamped(idx, n) == Min(idx + 1, n - 1)

\* app.js:2381
NextIndex(idx, n) == (idx + 1) % n

\* app.js:2390-2392
PreviousIndex(idx, n) == IF idx <= 0 THEN n - 1 ELSE idx - 1

\* What nextSearch and previousSearch do once the cursor has moved to idx:
\* highlightSearchResults, updateSearchInfo, scrollToCurrentResult
AfterCursorMove(idx) ==
    IF HighlightThrows(searchResults)
    THEN /\ lastError' = "TypeError"
         /\ UNCHANGED virtualScrolling
    ELSE /\ lastError' = "none"
         /\ virtualScrolling' =
                IF virtualScrolling.enabled
                THEN scrollToVirtualResult(virtualScrolling, searchResults, idx)
                ELSE virtualScrolling

\* The history keeps the last calls, as many as there are matches and at least two
NavWindow == Max(Len(searchResults), 2)

LastOf(h, n) == IF Len(h) <= n THEN h ELSE SubSeq(h, Len(h) - n + 1, Len(h))

Recorded(op) ==
    LastOf(Append(navHistory, [op |-> op, cursor |-> currentSearchIndex,
                               count |-> Len(searchResults)]),
           NavWindow)

\* nextSearch, app.js:2378-2385
nextSearch ==
    /\ navHistory' = Recorded("next")
    /\ lastCall' = "nextSearch"
    /\ IF Len(searchResults) = 0
       THEN /\ lastError' = "none"
            /\ UNCHANGED <<currentSearchIndex, virtualScrolling>>
       ELSE /\ currentSearchIndex' = NextIndex(currentSearchIndex, Len(searchResults))
            /\ AfterCursorMove(NextIndex(currentSearchIndex, Len(searchResults)))
    /\ UNCHANGED <<currentContent, isElectron, isLargeFile, searchInput, searchResults>>
    /\ UNCHANGED <<detectVars, pageVars>>
    /\ UNCHANGED appVars

\* previousSearch, app.js:2387-2396
previousSearch ==
    /\ navHistory' = Recorded("previous")
    /\ lastCall' = "previousSearch"
    /\ IF Len(searchResults) = 0
       THEN /\ lastError' = "none"
            /\ UNCHANGED <<currentSearchIndex, virtualScrolling>>
       ELSE /\ currentSearchIndex' = PreviousIndex(currentSearchIndex, Len(searchResults))
            /\ AfterCursorMove(PreviousIndex(currentSearchIndex, Len(searchResults)))
    /\ UNCHANGED <<currentContent, isElectron, isLargeFile, searchInput, searchResults>>
    /\ UNCHANGED <<detectVars, pageVars>>
    /\ UNCHANGED appVars

NextSearch == performSearch

SpecSearch == InitSearch /\ [][NextSearch]_vars

-----------------------------------------------------------------------------
(* Specification SpecCursor: the search cursor over the matches of the query  *)
(* "a" in a displayed document of a's and dots                                *)

CursorAlphabet == {"a", "."}

InitCursor ==
    /\ currentContent \in SeqsUpTo(CursorAlphabet, MaxCursorTextLen)
    /\ searchInput = <<"a">>
    /\ isElectron = FALSE
    /\ isLargeFile \in BOOLEAN
    /\ \E cs \in (IF isLargeFile THEN 1..MaxChunkSize ELSE {ChunkSize}) :
          virtualScrolling =
              renderScrollViewChunks([NewVirtualScrolling EXCEPT !.chunkSize = cs],
                                     currentContent, isLargeFile)
    /\ paging = cleanupPageMode(preparePagingData(NewPaging, SplitLines(currentContent),
                                                  isElectron))
    /\ lineNumber = 0
    /\ lastPagePosition = 1
    /\ lastScrollTargetLine = 0
    /\ searchResults = <<>>
    /\ currentSearchIndex = -1
    /\ navHistory = <<>>
    /\ DetectIdle /\ CtlIdle
    /\ AppIdle

NextCursor == performSearch \/ nextSearch \/ previousSearch

SpecCursor == InitCursor /\ [][NextCursor]_vars

-----------------------------------------------------------------------------
(* Specification SpecLayout: displayFile's split of a document into pages and *)
(* chunks, for any linesPerPage and chunkSize                                 *)

LayoutAlphabet == {"a", "b", NL}

InitLayout ==
    /\ currentContent \in SeqsUpTo(LayoutAlphabet, MaxDocLen)
    /\ isElectron \in BOOLEAN
    /\ isLargeFile = FALSE
    /\ \E cs \in 1..MaxChunkSize :
          virtualScrolling = [NewVirtualScrolling EXCEPT !.chunkSize = cs]
    /\ \E lpp \in 1..MaxLinesPerPage :
          paging = [NewPaging EXCEPT !.linesPerPage = lpp]
    /\ lineNumber = 0
    /\ lastPagePosition = 1
    /\ lastScrollTargetLine = 0
    /\ DetectIdle /\ SearchIdle /\ CtlIdle
    /\ AppIdle

\* preparePagingData(lines) as displayFile calls it, app.js:1884-1887
PreparePagingData ==
    /\ paging' = preparePagingData(paging, SplitLines(currentContent), isElectron)
    /\ lastCall' = "preparePagingData"
    /\ UNCHANGED <<lineNumber, lastPagePosition, lastScrollTargetLine, lastError>>
    /\ UNCHANGED <<detectVars, docVars, searchVars>>
    /\ UNCHANGED appVars

\* enableVirtualScrolling(lines) as renderScrollView calls it, app.js:1966-1970
EnableVirtualScrolling ==
    /\ virtualScrolling' = enableVirtualScrolling(virtualScrolling,
                                                  SplitLines(currentContent))
    /\ lastCall' = "enableVirtualScrolling"
    /\ UNCHANGED <<currentContent, isElectron, isLargeFile, lastError>>
    /\ UNCHANGED <<detectVars, pageVars, searchVars>>
    /\ UNCHANGED appVars

NextLayout == PreparePagingData \/ EnableVirtualScrolling

SpecLayout == InitLayout /\ [][NextLayout]_vars

-----------------------------------------------------------------------------
(* Specification SpecPosition: page turning and the translation between a     *)
(* line and a page, on a displayed document                                   *)

PositionAlphabet == {"a", NL}

InitPosition ==
    /\ currentContent \in SeqsUpTo(PositionAlphabet, MaxDocLen)
    /\ isElectron \in BOOLEAN
    /\ isLargeFile = FALSE
    /\ virtualScrolling = NewVirtualScrolling
    /\ \E lpp \in 1..MaxLinesPerPage :
          paging = cleanupPageMode(
                       preparePagingData([NewPaging EXCEPT !.linesPerPage = lpp],
                                         SplitLines(currentContent), isElectron))
    /\ lineNumber = 0
    /\ lastPagePosition = 1
    /\ lastScrollTargetLine = 0
    /\ DetectIdle /\ SearchIdle /\ CtlIdle
    /\ AppIdle

\* previousPage, app.js:3224-3230 (the definition the class ends up with)
previousPage ==
    /\ paging' = IF paging.currentPage > 1
                 THEN [paging EXCEPT !.currentPage = @ - 1]
                 ELSE paging
    /\ lastCall' = "previousPage"
    /\ UNCHANGED <<lineNumber, lastPagePosition, lastScrollTargetLine, lastError>>
    /\ UNCHANGED <<detectVars, docVars, searchVars>>
    /\ UNCHANGED appVars

\* Mutation: nextPage at the last page wraps around to the first
nextPageWrapping ==
    /\ paging' = IF paging.currentPage < paging.totalPages
                 THEN [paging EXCEPT !.currentPage = @ + 1]
                 ELSE [paging EXCEPT !.currentPage = 1]
    /\ lastCall' = "nextPage"
    /\ UNCHANGED <<lineNumber, lastPagePosition, lastScrollTargetLine, lastError>>
    /\ UNCHANGED <<detectVars, docVars, searchVars>>
    /\ UNCHANGED appVars

\* nextPage, app.js:3232-3238
nextPage ==
    /\ paging' = IF paging.currentPage < paging.totalPages
                 THEN [paging EXCEPT !.currentPage = @ + 1]
                 ELSE paging
    /\ lastCall' = "nextPage"
    /\ UNCHANGED <<lineNumber, lastPagePosition, lastScrollTargetLine, lastError>>
    /\ UNCHANGED <<detectVars, docVars, searchVars>>
    /\ UNCHANGED appVars

\* this.lastPagePosition = this.getPageFromLine(currentVisibleLine), app.js:1252
GetPageFromLine ==
    /\ \E line \in 0..MaxLineNumber :
          /\ lineNumber' = line
          /\ lastPagePosition' = getPageFromLine(line, paging, isElectron)
    /\ lastCall' = "getPageFromLine"
    /\ UNCHANGED <<paging, lastScrollTargetLine, lastError>>
    /\ UNCHANGED <<detectVars, docVars, searchVars>>
    /\ UNCHANGED appVars

\* this.lastScrollTargetLine = this.getFirstLineFromCurrentPage(), app.js:1256-1257
GetFirstLineFromCurrentPage ==
    /\ lastScrollTargetLine' = getFirstLineFromCurrentPage(paging, isElectron)
    /\ lastCall' = "getFirstLineFromCurrentPage"
    /\ UNCHANGED <<paging, lineNumber, lastPagePosition, lastError>>
    /\ UNCHANGED <<detectVars, docVars, searchVars>>
    /\ UNCHANGED appVars

NextPosition ==
    previousPage \/ nextPage \/ GetPageFromLine \/ GetFirstLineFromCurrentPage

SpecPosition == InitPosition /\ [][NextPosition]_vars

-----------------------------------------------------------------------------
(* Specification SpecThreshold: renderScrollView on small documents and on     *)
(* documents at the sizes where chunking starts                                *)

\* A document of n characters that starts with k line breaks: k + 1 lines
Filled(n, k) == [i \in 1..n |-> IF i <= k THEN NL ELSE "a"]

ThresholdDocuments ==
    {Filled(n, k) : n \in {LargeFileChars - 1, LargeFileChars, LargeFileChars + 1},
                    k \in {0, LargeFileLines - 1}}
    \cup {Filled(n, n) : n \in {LargeFileLines - 1, LargeFileLines}}
    \cup {Filled(LargeFileChars, LargeFileLines)}

InitThreshold ==
    /\ currentContent \in SeqsUpTo(LayoutAlphabet, MaxDocLen) \cup ThresholdDocuments
    /\ isElectron = FALSE
    /\ isLargeFile = FALSE
    /\ virtualScrolling = NewVirtualScrolling
    /\ \E lines \in {SplitLines(currentContent)} :
          paging = preparePagingData(NewPaging, lines, isElectron)
    /\ lineNumber = 0
    /\ lastPagePosition = 1
    /\ lastScrollTargetLine = 0
    /\ ReadIdle /\ ScrollIdle /\ ViewIdle /\ LibIdle
    /\ DetectIdle /\ SearchIdle /\ CtlIdle

\* renderScrollView, app.js:1958-1979
RenderScrollView ==
    /\ lastCall # "renderScrollView"
    /\ isLargeFile' = IsLargeFile(currentContent)
    /\ virtualScrolling' = renderScrollViewChunks(virtualScrolling, currentContent,
                                                  IsLargeFile(currentContent))
    /\ scrollContent' = renderScrollViewContent(currentContent, IsLargeFile(currentContent))
    /\ paging' = cleanupPageMode(paging)
    /\ lastCall' = "renderScrollView"
    /\ UNCHANGED <<currentContent, isElectron, lineNumber, lastPagePosition,
                   lastScrollTargetLine, scrollTop, clientHeight, lastError>>
    /\ UNCHANGED <<detectVars, searchVars, libVars, viewVars, readVars>>

NextThreshold == RenderScrollView

SpecThreshold == InitThreshold /\ [][NextThreshold]_vars

-----------------------------------------------------------------------------
(* Specification SpecScroll: scrolling a chunked document.  The documents are  *)
(* scaled down, so the document counts as large and chunkSize is drawn.        *)

ScrollOffsets(totalLines) ==
    {top \in 0..(totalLines * EstimatedLineHeight) :
        top % ScrollStep = 0 \/ top = totalLines * EstimatedLineHeight}

ClientHeights == {h \in 1..MaxClientHeight : h % ScrollStep \in {0, 1}}

InitScroll ==
    /\ currentContent \in SeqsUpTo(PositionAlphabet, MaxDocLen)
    /\ isElectron = FALSE
    /\ isLargeFile = TRUE
    /\ \E cs \in 1..MaxChunkSize :
          virtualScrolling =
              renderScrollViewChunks([NewVirtualScrolling EXCEPT !.chunkSize = cs],
                                     currentContent, isLargeFile)
    /\ paging = cleanupPageMode(preparePagingData(NewPaging, SplitLines(currentContent),
                                                  isElectron))
    /\ lineNumber = 0
    /\ lastPagePosition = 1
    /\ lastScrollTargetLine = 0
    /\ scrollContent = renderScrollViewContent(currentContent, isLargeFile)
    /\ scrollTop = 0
    /\ clientHeight \in ClientHeights
    /\ ReadIdle /\ ViewIdle /\ LibIdle
    /\ DetectIdle /\ SearchIdle /\ CtlIdle

\* The user scrolls the container to an offset; its scroll listener,
\* app.js:2053, runs handleVirtualScroll
HandleVirtualScroll ==
    /\ \E top \in ScrollOffsets(Len(SplitLines(currentContent))) :
          /\ scrollTop' = top
          /\ virtualScrolling' = handleVirtualScroll(virtualScrolling, top, clientHeight)
    /\ lastCall' = "handleVirtualScroll"
    /\ UNCHANGED <<currentContent, isElectron, isLargeFile, scrollContent, clientHeight,
                   lastError>>
    /\ UNCHANGED <<detectVars, pageVars, searchVars, libVars, viewVars, readVars>>

NextScroll == HandleVirtualScroll

SpecScroll == InitScroll /\ [][NextScroll]_vars

-----------------------------------------------------------------------------
(* View modes: setViewMode, setupPageMode, createPages, restorePagePosition,   *)
(* and the callbacks they hand to setTimeout.  A timer is a callback with the  *)
(* milliseconds left until it is due; time passes in steps of TimerStep.       *)

TurnInitDelay == 100       \* setupPageMode, app.js:1406
ScrollRestoreDelay == 150  \* setViewMode, app.js:1278
PageRestoreDelay == 300    \* setViewMode, app.js:1278
PageTurnDelay == 100       \* restorePagePosition, app.js:1638

Timer(callback, delay, mode, page) ==
    [callback |-> callback, delay |-> delay, mode |-> mode, page |-> page]

\* $(this.elements.pageBook), the value setupPageMode stores as turnInstance
PageBookHandle == <<"$(pageBook)">>

\* createPages, app.js:1409-1456, and createSimplePages, app.js:3176-3215:
\* one child of pageBook for every entry of paging.pages
createPages(pages) ==
    [i \in 1..Len(pages) |->
        [isCover    |-> pages[i].isCover,
         text       |-> IF pages[i].isCover THEN <<>> ELSE Join(pages[i].lines),
         pageNumber |-> pages[i].pageNumber]]

\* renderCurrentView, app.js:1950-1956, on the paging record pg and the timers
\* tm the caller has reached: renderScrollView (app.js:1958-1979) or
\* renderPageView (app.js:1980-1992) with setupPageMode (app.js:1323-1407) and
\* setupSimplePageMode (app.js:3169-3174)
RenderCurrentView(pg, mode, content, tm) ==
    IF mode = "scroll"
    THEN /\ paging' = cleanupPageMode(pg)
         /\ pageBook' = <<>>
         /\ isLargeFile' = IsLargeFile(content)
         /\ virtualScrolling' =
                renderScrollViewChunks(virtualScrolling, content, IsLargeFile(content))
         /\ scrollContent' = renderScrollViewContent(content, IsLargeFile(content))
         /\ timers' = tm
    ELSE /\ IF turnAvailable
            THEN /\ paging' = cleanupPageMode(pg)
                 /\ timers' = tm \cup {Timer("turnInit", TurnInitDelay, "page", 0)}
            ELSE /\ paging' = [cleanupPageMode(pg) EXCEPT !.currentPage = 1]
                 /\ timers' = tm
         /\ pageBook' = createPages(cleanupPageMode(pg).pages)
         /\ UNCHANGED <<isLargeFile, virtualScrolling, scrollContent>>

\* displayFile, app.js:1876-1904
displayFile(content) ==
    /\ currentContent' = content
    /\ \E lines \in {SplitLines(content)} :
          RenderCurrentView(preparePagingData(paging, lines, isElectron), viewMode,
                            content, timers)

\* restorePagePosition, app.js:1611-1625: the page it will turn to
FinalTargetPage(targetPage, pg, electron) ==
    LET validTargetPage == Min(Max(1, targetPage), pg.totalPages)
    IN  IF electron /\ validTargetPage = 1 THEN 2 ELSE validTargetPage

Ran(callback, wrotePage) ==
    [callback |-> callback, viewMode |-> viewMode, wrotePage |-> wrotePage]

-----------------------------------------------------------------------------
(* Specification SpecView: documents are displayed, the user switches between  *)
(* scroll and page mode and turns pages, time passes and the timers run        *)

ViewDocuments == SeqsUpTo(PositionAlphabet, MaxViewDocLen)

InitView ==
    /\ currentContent = <<>>
    /\ isElectron \in BOOLEAN
    /\ isLargeFile = FALSE
    /\ virtualScrolling = NewVirtualScrolling
    /\ \E lpp \in {1, LinesPerPage} : paging = [NewPaging EXCEPT !.linesPerPage = lpp]
    /\ lineNumber = 0
    /\ lastPagePosition = 1
    /\ lastScrollTargetLine = 0
    /\ viewMode = "scroll"
    /\ turnAvailable \in BOOLEAN
    /\ pageBook = <<>>
    /\ timers = {}
    /\ timerLog = NoRun
    /\ ReadIdle /\ ScrollIdle /\ LibIdle
    /\ DetectIdle /\ SearchIdle /\ CtlIdle

\* A document is opened or decoded again, while no timer is pending:
\* displayFile(content)
DisplayFile ==
    /\ timers = {}
    /\ \E content \in ViewDocuments : displayFile(content)
    /\ lastCall' = "displayFile"
    /\ UNCHANGED <<isElectron, lineNumber, lastPagePosition, lastScrollTargetLine,
                   viewMode, turnAvailable, timerLog, scrollTop, clientHeight, lastError>>
    /\ UNCHANGED <<detectVars, searchVars, libVars, readVars>>

\* setViewMode(mode), app.js:1242-1287.  The line getCurrentVisibleLineFromScroll
\* (app.js:1507-1527) returns depends on the scroll position: any line of the
\* document, here one of visibleLines.  The switches are as frequent as
\* MaxTimers allows.
setViewModeFrom(visibleLines) ==
    /\ \E mode \in {"scroll", "page"} :
          IF viewMode = mode
          THEN UNCHANGED <<viewMode, lineNumber, lastPagePosition, lastScrollTargetLine,
                           paging, pageBook, timers, isLargeFile, virtualScrolling,
                           scrollContent>>
          ELSE /\ IF viewMode = "scroll"
                  THEN /\ \E line \in visibleLines :
                             /\ lineNumber' = line
                             /\ lastPagePosition' = getPageFromLine(line, paging, isElectron)
                       /\ UNCHANGED lastScrollTargetLine
                  ELSE /\ lastScrollTargetLine' =
                              getFirstLineFromCurrentPage(paging, isElectron)
                       /\ UNCHANGED <<lineNumber, lastPagePosition>>
               /\ viewMode' = mode
               /\ IF currentContent # <<>>
                  THEN RenderCurrentView(
                           IF viewMode = "page" THEN cleanupPageMode(paging) ELSE paging,
                           mode, currentContent,
                           timers \cup {Timer("restore",
                                              IF mode = "page" THEN PageRestoreDelay
                                                               ELSE ScrollRestoreDelay,
                                              mode, 0)})
                  ELSE UNCHANGED <<paging, pageBook, timers, isLargeFile,
                                   virtualScrolling, scrollContent>>
    /\ Cardinality(timers') <= MaxTimers
    /\ lastCall' = "setViewMode"
    /\ UNCHANGED <<currentContent, isElectron, turnAvailable, timerLog, scrollTop,
                   clientHeight, lastError>>
    /\ UNCHANGED <<detectVars, searchVars, libVars, readVars>>

setViewMode == setViewModeFrom(0..(Len(SplitLines(currentContent)) - 1))

\* No timer is due: TimerStep milliseconds pass
AdvanceTime ==
    /\ timers # {}
    /\ \A t \in timers : t.delay > 0
    /\ timers' = {[t EXCEPT !.delay = Max(0, @ - TimerStep)] : t \in timers}
    /\ UNCHANGED <<viewMode, turnAvailable, pageBook, timerLog>>
    /\ UNCHANGED <<detectVars, docVars, pageVars, searchVars, libVars, scrollVars,
                   readVars, ctlVars>>

\* The callback of setupPageMode, app.js:1346-1406.  $pageBook.turn({...}) is
\* Turn.js, which is not part of the sources: it returns or it throws.
RunTurnInit ==
    /\ \E t \in timers :
          /\ t.callback = "turnInit"
          /\ t.delay = 0
          /\ timers' = timers \ {t}
    /\ \E turnThrows \in BOOLEAN :
          IF turnThrows
          THEN /\ lastAlert' = "showError"
               /\ timerLog' = Ran("turnInit", FALSE)
               /\ UNCHANGED paging
          ELSE /\ paging' = [paging EXCEPT !.turnInstance = PageBookHandle,
                                           !.currentPage = IF isElectron THEN 2 ELSE 1]
               /\ timerLog' = Ran("turnInit", TRUE)
               /\ UNCHANGED lastAlert
    /\ lastCall' = "turnInit"
    /\ UNCHANGED <<lineNumber, lastPagePosition, lastScrollTargetLine, viewMode,
                   turnAvailable, pageBook, lastError>>
    /\ UNCHANGED <<files, books, library, selectedBook, currentView, pending, loading>>
    /\ UNCHANGED <<detectVars, docVars, searchVars, scrollVars, readVars>>

\* The callback of setViewMode, app.js:1279-1285: restoreScrollPositionFromLine
\* (app.js:1571-1609) for the mode 'scroll' it was scheduled with,
\* restorePagePosition (app.js:1611-1641) for 'page'
RunRestore ==
    /\ \E t \in timers :
          /\ t.callback = "restore"
          /\ t.delay = 0
          /\ IF t.mode = "scroll"
             THEN /\ timers' = timers \ {t}
                  /\ timerLog' = Ran("restoreScrollPositionFromLine", FALSE)
                  /\ IF virtualScrolling.enabled
                     THEN /\ scrollTop' = lastScrollTargetLine * EstimatedLineHeight
                          /\ virtualScrolling' =
                                 handleVirtualScroll(virtualScrolling,
                                     lastScrollTargetLine * EstimatedLineHeight,
                                     clientHeight)
                     ELSE UNCHANGED <<scrollTop, virtualScrolling>>
             ELSE /\ timers' =
                         (timers \ {t}) \cup
                         (IF paging.turnInstance # NULL
                          THEN {Timer("pageTurn", PageTurnDelay, "page",
                                      FinalTargetPage(lastPagePosition, paging, isElectron))}
                          ELSE {})
                  /\ timerLog' = Ran("restorePagePosition", FALSE)
                  /\ UNCHANGED <<scrollTop, virtualScrolling>>
    /\ lastCall' = "restore"
    /\ UNCHANGED <<currentContent, isElectron, isLargeFile, scrollContent, clientHeight,
                   viewMode, turnAvailable, pageBook, lastError>>
    /\ UNCHANGED <<detectVars, pageVars, searchVars, libVars, readVars>>

\* The callback of restorePagePosition, app.js:1628-1638.  turnInstance.turn
\* is Turn.js: it returns or it throws; on null it is a TypeError; the catch
\* swallows both.
RunPageTurn ==
    /\ \E t \in timers :
          /\ t.callback = "pageTurn"
          /\ t.delay = 0
          /\ timers' = timers \ {t}
          /\ \E turnThrows \in BOOLEAN :
                IF t.page # paging.currentPage /\ (paging.turnInstance = NULL \/ turnThrows)
                THEN /\ timerLog' = Ran("pageTurn", FALSE)
                     /\ UNCHANGED paging
                ELSE /\ paging' = [paging EXCEPT !.currentPage = t.page]
                     /\ timerLog' = Ran("pageTurn", TRUE)
    /\ lastCall' = "pageTurn"
    /\ UNCHANGED <<lineNumber, lastPagePosition, lastScrollTargetLine, viewMode,
                   turnAvailable, pageBook, lastError>>
    /\ UNCHANGED <<detectVars, docVars, searchVars, libVars, scrollVars, readVars>>

NextView ==
    \/ DisplayFile
    \/ setViewMode
    \/ AdvanceTime
    \/ RunTurnInit
    \/ RunRestore
    \/ RunPageTurn
    \/ nextPage
    \/ previousPage

SpecView == InitView /\ [][NextView]_vars

-----------------------------------------------------------------------------
(* Specification SpecSwitch: the documents of SpecView are displayed and the   *)
(* view mode is switched, each of the two only once the callbacks of the       *)
(* operation before have run; no page is turned by the user.                   *)

\* setViewMode(mode) while no timer is pending
SwitchWhenSettled ==
    /\ timers = {}
    /\ setViewMode

NextSwitch ==
    \/ DisplayFile
    \/ SwitchWhenSettled
    \/ AdvanceTime
    \/ RunTurnInit
    \/ RunRestore
    \/ RunPageTurn

SpecSwitch == InitView /\ [][NextSwitch]_vars

-----------------------------------------------------------------------------
(* Specification SpecChunkView: documents large enough for virtual scrolling   *)
(* are displayed, by openBook or by the completion of changeEncoding, and the  *)
(* view mode is switched.  The scroll position at a switch is the top or the   *)
(* bottom of the document.                                                     *)

\* 1,001 empty lines; 1,000 empty lines and the line "a"; one line
ChunkViewDocuments ==
    {Filled(LargeFileLines, LargeFileLines), Filled(LargeFileLines + 1, LargeFileLines),
     <<"a">>}

InitChunkView ==
    /\ currentContent = <<>>
    /\ isElectron \in BOOLEAN
    /\ isLargeFile = FALSE
    /\ virtualScrolling = NewVirtualScrolling
    /\ paging = NewPaging
    /\ lineNumber = 0
    /\ lastPagePosition = 1
    /\ lastScrollTargetLine = 0
    /\ viewMode = "scroll"
    /\ turnAvailable \in BOOLEAN
    /\ pageBook = <<>>
    /\ timers = {}
    /\ timerLog = NoRun
    /\ ReadIdle /\ ScrollIdle /\ LibIdle
    /\ DetectIdle /\ SearchIdle /\ CtlIdle

\* displayFile(content), app.js:1876-1904, while no timer is pending
DisplayLargeFile ==
    /\ timers = {}
    /\ \E content \in ChunkViewDocuments : displayFile(content)
    /\ lastCall' = "displayFile"
    /\ UNCHANGED <<isElectron, lineNumber, lastPagePosition, lastScrollTargetLine,
                   viewMode, turnAvailable, timerLog, scrollTop, clientHeight, lastError>>
    /\ UNCHANGED <<detectVars, searchVars, libVars, readVars>>

\* setViewMode(mode), the first or the last line being the visible one
SetViewModeAtEnds ==
    setViewModeFrom({0, Len(SplitLines(currentContent)) - 1})

NextChunkView ==
    \/ DisplayLargeFile
    \/ SetViewModeAtEnds
    \/ AdvanceTime
    \/ RunTurnInit
    \/ RunRestore
    \/ RunPageTurn

SpecChunkView == InitChunkView /\ [][NextChunkView]_vars

-----------------------------------------------------------------------------
(* The library: books are added, opened and decoded again.  A read that has    *)
(* been started is an element of pending until it completes or fails.          *)

\* The encodings of the selector (app.js:2196) that are offered here
EncodingChoices == {"UTF-8", "EUC-KR"}

\* The files the user picks from: "a" in ASCII, and one Hangul syllable in EUC-KR
LibraryFiles ==
    << [name |-> "a.txt", size |-> 1, bytes |-> <<97>>],
       [name |-> "b.txt", size |-> 2, bytes |-> <<176, 161>>] >>

\* A book that came out of localStorage has neither filePath nor originalFile
NoFile == 0

\* The book objects of addBookFromFile (app.js:1032-1043, originalFile: file)
\* and of addBookFromElectronData (app.js:985-996, filePath); file is the
\* file that originalFile or filePath refers to
Book(name, size, content, encoding, f, hasFilePath, hasOriginalFile) ==
    [name |-> name, size |-> size, content |-> content, encoding |-> encoding,
     file |-> f, filePath |-> hasFilePath, originalFile |-> hasOriginalFile]

\* loadLibrary, app.js:1075-1089: a book saved by an earlier session in the
\* browser; saveLibrary (app.js:1091-1102) has stripped its originalFile
StoredBook == Book("stored.txt", 1, <<"a">>, "UTF-8", NoFile, FALSE, FALSE)

\* A read in flight: the awaited readFileContent of addBookFromFile, the awaited
\* electronAPI.readFileWithEncoding or the FileReader of changeEncoding
Pending(kind, f, encoding) == [kind |-> kind, file |-> f, encoding |-> encoding]

\* addBookToLibrary, app.js:1056-1058: findIndex by name and size, 0 for -1
ExistingIndex(book) ==
    LET hits == {i \in 1..Len(library) :
                    /\ books[library[i]].name = book.name
                    /\ books[library[i]].size = book.size}
    IN  IF hits = {} THEN 0 ELSE CHOOSE i \in hits : \A j \in hits : i <= j

\* addBookToLibrary, app.js:1054-1073; saveLibrary reports the exception of
\* localStorage.setItem with showError
addBookToLibrary(book) ==
    /\ books' = Append(books, book)
    /\ library' = IF ExistingIndex(book) # 0
                  THEN [library EXCEPT ![ExistingIndex(book)] = Len(books) + 1]
                  ELSE Append(library, Len(books) + 1)
    /\ \E saveFails \in BOOLEAN :
          lastAlert' = IF saveFails THEN "showError" ELSE "showInfo"

\* What displayFile writes
displayFileVars == <<currentContent, isLargeFile, virtualScrolling, paging, pageBook,
                     timers, scrollContent>>

\* What no handler of the library writes
libraryFrame == <<detectVars, isElectron, lineNumber, lastPagePosition,
                  lastScrollTargetLine, files, viewMode, turnAvailable, timerLog,
                  scrollTop, clientHeight, readVars>>

\* The completion of a re-decode, app.js:3114-3123 and app.js:3130-3141: the
\* text goes to whatever this.selectedBook is when the completion runs
StoreDecoded(content, newEncoding) ==
    /\ books' = [books EXCEPT ![selectedBook].content = content,
                              ![selectedBook].encoding = newEncoding]
    /\ displayFile(content)
    /\ lastAlert' = "showInfo"

-----------------------------------------------------------------------------
(* Specification SpecLibrary *)

InitLibrary ==
    /\ isElectron \in BOOLEAN
    /\ files = LibraryFiles
    /\ \E stored \in (IF isElectron THEN {FALSE} ELSE BOOLEAN) :
          /\ books = IF stored THEN <<StoredBook>> ELSE <<>>
          /\ library = IF stored THEN <<1>> ELSE <<>>
    /\ selectedBook = NoBook
    /\ currentView = "library"
    /\ pending = {}
    /\ loading = FALSE
    /\ lastAlert = "none"
    /\ currentContent = <<>>
    /\ isLargeFile = FALSE
    /\ virtualScrolling = NewVirtualScrolling
    /\ paging = NewPaging
    /\ lineNumber = 0
    /\ lastPagePosition = 1
    /\ lastScrollTargetLine = 0
    /\ searchInput = <<"a">>
    /\ searchResults = <<>>
    /\ currentSearchIndex = -1
    /\ navHistory = <<>>
    /\ ViewIdle /\ ScrollIdle /\ ReadIdle
    /\ DetectIdle /\ CtlIdle

\* addBookFromFile(file), app.js:1026-1030, up to the await: the file input of
\* addBookWeb (app.js:1002-1024) hands over one of the user's files
addBookFromFile ==
    /\ ~isElectron
    /\ Len(books) + Cardinality({p \in pending : p.kind = "readFileContent"}) < MaxBooks
    /\ Cardinality(pending) < MaxPending
    /\ \E f \in 1..Len(files) :
          pending' = pending \cup {Pending("readFileContent", f, "none")}
    /\ loading' = TRUE
    /\ lastCall' = "addBookFromFile"
    /\ lastError' = "none"
    /\ UNCHANGED <<books, library, selectedBook, currentView, lastAlert>>
    /\ UNCHANGED <<displayFileVars, searchVars, libraryFrame>>

\* addBookFromFile after the await, app.js:1030-1051: readFileContent resolved
ReadFileContentResolved ==
    /\ \E p \in pending :
          /\ p.kind = "readFileContent"
          /\ pending' = pending \ {p}
          /\ \E sampleFails \in BOOLEAN :
                LET result == readFileContent(files[p.file], ReadSliceLen, sampleFails)
                IN  addBookToLibrary(Book(files[p.file].name, files[p.file].size,
                                          result.content, result.encoding, p.file,
                                          FALSE, TRUE))
    /\ loading' = FALSE
    /\ lastCall' = "addBookFromFile resolved"
    /\ lastError' = "none"
    /\ UNCHANGED <<selectedBook, currentView>>
    /\ UNCHANGED <<displayFileVars, searchVars, libraryFrame>>

\* addBookFromFile after the await, app.js:1046-1051: readFileContent rejected
\* (reader.onerror, app.js:1838-1840)
ReadFileContentRejected ==
    /\ \E p \in pending :
          /\ p.kind = "readFileContent"
          /\ pending' = pending \ {p}
    /\ lastAlert' = "showError"
    /\ loading' = FALSE
    /\ lastCall' = "addBookFromFile rejected"
    /\ lastError' = "none"
    /\ UNCHANGED <<books, library, selectedBook, currentView>>
    /\ UNCHANGED <<displayFileVars, searchVars, libraryFrame>>

\* addBookElectron, app.js:966-979, with addBookFromElectronData, app.js:982-1000.
\* electronAPI.readFile belongs to the main process, which is not part of the
\* sources: it hands back the text of the file read as UTF-8, or nothing, or
\* it rejects.
addBookElectron ==
    /\ isElectron
    /\ Len(books) < MaxBooks
    /\ \E f \in 1..Len(files), outcome \in {"fileData", "canceled", "rejected"} :
          CASE outcome = "fileData" ->
                   LET content == readAsText(files[f].bytes, "UTF-8")
                   IN  addBookToLibrary(Book(files[f].name, Len(content), content,
                                             "UTF-8", f, TRUE, FALSE))
            [] outcome = "canceled" ->
                   UNCHANGED <<books, library, lastAlert>>
            [] outcome = "rejected" ->
                   /\ lastAlert' = "showError"
                   /\ UNCHANGED <<books, library>>
    /\ lastCall' = "addBookElectron"
    /\ lastError' = "none"
    /\ UNCHANGED <<selectedBook, currentView, pending, loading>>
    /\ UNCHANGED <<displayFileVars, searchVars, libraryFrame>>

\* openBook(bookId), app.js:1163-1181, from a card of the library view
\* (app.js:1143), with showViewer (app.js:1227-1240)
openBook ==
    /\ currentView = "library"
    /\ \E i \in 1..Len(library) :
          /\ selectedBook' = library[i]
          /\ displayFile(books[library[i]].content)
    /\ currentView' = "viewer"
    /\ lastCall' = "openBook"
    /\ lastError' = "none"
    /\ UNCHANGED <<books, library, pending, loading, lastAlert>>
    /\ UNCHANGED <<searchVars, libraryFrame>>

\* showLibrary, app.js:1200-1224.  closeSearch (app.js:2264-2271) calls
\* clearSearchHighlights first, and the exception of it ends showLibrary.
showLibrary ==
    /\ currentView = "viewer"
    /\ currentView' = "library"
    /\ IF ClearHighlightsThrows
       THEN /\ lastError' = "TypeError"
            /\ UNCHANGED <<searchVars, displayFileVars>>
       ELSE /\ searchInput' = <<>>
            /\ searchResults' = <<>>
            /\ currentSearchIndex' = -1
            /\ paging' = cleanupPageMode(paging)
            /\ pageBook' = <<>>
            /\ scrollContent' = <<>>
            /\ virtualScrolling' = [virtualScrolling EXCEPT !.enabled = FALSE]
            /\ lastError' = "none"
            /\ UNCHANGED <<navHistory, currentContent, isLargeFile, timers>>
    /\ lastCall' = "showLibrary"
    /\ UNCHANGED <<books, library, selectedBook, pending, loading, lastAlert>>
    /\ UNCHANGED libraryFrame

\* changeEncoding(newEncoding), app.js:3104-3163, from the selector of the
\* viewer's file information (app.js:2196), up to the point where it waits:
\* window.electronAPI exists in Electron only
changeEncoding ==
    /\ currentView = "viewer"
    /\ selectedBook # NoBook
    /\ \E newEncoding \in EncodingChoices :
          IF books[selectedBook].filePath /\ isElectron
          THEN /\ Cardinality(pending) < MaxPending
               /\ pending' = pending \cup {Pending("readFileWithEncoding",
                                                   books[selectedBook].file, newEncoding)}
               /\ loading' = TRUE
               /\ UNCHANGED <<books, lastAlert>>
          ELSE IF books[selectedBook].originalFile
          THEN /\ Cardinality(pending) < MaxPending
               /\ pending' = pending \cup {Pending("FileReader",
                                                   books[selectedBook].file, newEncoding)}
               /\ loading' = FALSE
               /\ UNCHANGED <<books, lastAlert>>
          ELSE /\ books' = [books EXCEPT ![selectedBook].encoding = newEncoding]
               /\ lastAlert' = "showInfo"
               /\ loading' = FALSE
               /\ UNCHANGED pending
    /\ lastCall' = "changeEncoding"
    /\ lastError' = "none"
    /\ UNCHANGED <<library, selectedBook, currentView>>
    /\ UNCHANGED <<displayFileVars, searchVars, libraryFrame>>

\* changeEncoding after the await, app.js:3113-3125 and 3160-3162:
\* readFileWithEncoding resolved, with the text in the new encoding or with
\* nothing.  It belongs to the main process, which is not part of the sources.
ReadFileWithEncodingResolved ==
    /\ \E p \in pending :
          /\ p.kind = "readFileWithEncoding"
          /\ pending' = pending \ {p}
          /\ \E hasData \in BOOLEAN :
                IF hasData
                THEN /\ StoreDecoded(readAsText(files[p.file].bytes, p.encoding),
                                     p.encoding)
                     /\ lastCall' = "changeEncoding resolved"
                ELSE /\ UNCHANGED <<books, lastAlert, displayFileVars>>
                     /\ lastCall' = "changeEncoding resolved with nothing"
    /\ loading' = FALSE
    /\ lastError' = "none"
    /\ UNCHANGED <<library, selectedBook, currentView>>
    /\ UNCHANGED <<searchVars, libraryFrame>>

\* changeEncoding after the await, app.js:3158-3162: readFileWithEncoding rejected
ReadFileWithEncodingRejected ==
    /\ \E p \in pending :
          /\ p.kind = "readFileWithEncoding"
          /\ pending' = pending \ {p}
    /\ lastAlert' = "showError"
    /\ loading' = FALSE
    /\ lastCall' = "changeEncoding rejected"
    /\ lastError' = "none"
    /\ UNCHANGED <<books, library, selectedBook, currentView>>
    /\ UNCHANGED <<displayFileVars, searchVars, libraryFrame>>

\* reader.onload of changeEncoding, app.js:3130-3141
FileReaderLoaded ==
    /\ \E p \in pending :
          /\ p.kind = "FileReader"
          /\ pending' = pending \ {p}
          /\ StoreDecoded(readAsText(files[p.file].bytes, p.encoding), p.encoding)
    /\ lastCall' = "reader.onload"
    /\ lastError' = "none"
    /\ UNCHANGED <<library, selectedBook, currentView, loading>>
    /\ UNCHANGED <<searchVars, libraryFrame>>

\* The read of changeEncoding's FileReader fails: the reader (app.js:3129-3143)
\* has no onerror, so no code of the application runs
FileReaderFailed ==
    /\ \E p \in pending :
          /\ p.kind = "FileReader"
          /\ pending' = pending \ {p}
    /\ lastCall' = "reader error"
    /\ lastError' = "none"
    /\ UNCHANGED <<books, library, selectedBook, currentView, loading, lastAlert>>
    /\ UNCHANGED <<displayFileVars, searchVars, libraryFrame>>

\* closeSearch, app.js:2264-2271, from the close button of the search bar
\* (app.js:858): clearSearchHighlights comes before the assignments
closeSearch ==
    /\ currentView = "viewer"
    /\ IF ClearHighlightsThrows
       THEN /\ lastError' = "TypeError"
            /\ UNCHANGED searchVars
       ELSE /\ searchInput' = <<>>
            /\ searchResults' = <<>>
            /\ currentSearchIndex' = -1
            /\ lastError' = "none"
            /\ UNCHANGED navHistory
    /\ lastCall' = "closeSearch"
    /\ UNCHANGED <<books, library, selectedBook, currentView, pending, loading, lastAlert>>
    /\ UNCHANGED <<displayFileVars, libraryFrame>>

\* deleteBook(bookId), app.js:1183-1194, from the delete button of a card of the
\* library view (app.js:1148) or from the one in the file information of the
\* viewer (app.js:2189), which passes selectedBook.id.  A book that
\* library.find does not find is left alone; confirm is the user's answer.
deleteBook ==
    /\ \E bookId \in (IF currentView = "viewer"
                      THEN {selectedBook} \ {NoBook}
                      ELSE {library[i] : i \in 1..Len(library)}),
          confirmed \in BOOLEAN :
          IF confirmed /\ \E i \in 1..Len(library) : library[i] = bookId
          THEN /\ library' = SelectSeq(library, LAMBDA b : b # bookId)
               /\ \E saveFails \in BOOLEAN :
                     lastAlert' = IF saveFails THEN "showError" ELSE "showInfo"
          ELSE UNCHANGED <<library, lastAlert>>
    /\ lastCall' = "deleteBook"
    /\ lastError' = "none"
    /\ UNCHANGED <<books, selectedBook, currentView, pending, loading>>
    /\ UNCHANGED <<displayFileVars, searchVars, libraryFrame>>

\* performSearch in the viewer, the query being what the search box holds
SearchInViewer ==
    /\ currentView = "viewer"
    /\ performSearch

NextLibrary ==
    \/ addBookFromFile
    \/ ReadFileContentResolved
    \/ ReadFileContentRejected
    \/ addBookElectron
    \/ openBook
    \/ showLibrary
    \/ changeEncoding
    \/ ReadFileWithEncodingResolved
    \/ ReadFileWithEncodingRejected
    \/ FileReaderLoaded
    \/ FileReaderFailed
    \/ SearchInViewer
    \/ closeSearch
    \/ deleteBook

SpecLibrary == InitLibrary /\ [][NextLibrary]_vars

-----------------------------------------------------------------------------
(* Claims about detectEncodingFromBuffer, checked under SpecDetect *)

Detected == lastCall = "detectEncodingFromBuffer"

IsPrefix(pre, buf) == Len(buf) >= Len(pre) /\ \A k \in 1..Len(pre) : buf[k] = pre[k]

HasUtf8Bom(buf)    == IsPrefix(<<239, 187, 191>>, buf)
HasUtf16BeBom(buf) == IsPrefix(<<254, 255>>, buf)
HasUtf16LeBom(buf) == IsPrefix(<<255, 254>>, buf)
NoBom(buf) == ~HasUtf8Bom(buf) /\ ~HasUtf16BeBom(buf) /\ ~HasUtf16LeBom(buf)

PureAscii(buf) == \A k \in 1..Len(buf) : buf[k] <= 127

\* The cascade C7 states, over the scores of the scan
StatedCascade(buf, st) ==
    IF PureAscii(buf) THEN "UTF-8"
    ELSE IF st.validUtf8Sequences >= 1 /\ st.invalidUtf8Sequences = 0 /\ st.utf8Score > 0
    THEN "UTF-8"
    ELSE IF st.eucKrScore > st.utf8Score /\ st.eucKrScore > 0 THEN "EUC-KR"
    ELSE IF st.utf8Score > 0 THEN "UTF-8"
    ELSE "EUC-KR"

TwoHangulPairs == <<176, 161, 176, 162>>

\* C7: for a sample that starts with no BOM the detector returns the first match
\* of: pure ASCII -> UTF-8; a valid and no invalid UTF-8 sequence and utf8Score > 0
\* -> UTF-8; eucKrScore > utf8Score and > 0 -> EUC-KR; utf8Score > 0 -> UTF-8;
\* otherwise EUC-KR.  The sample B0 A1 B0 A2 yields EUC-KR.
C7_DecisionCascade ==
    (Detected /\ NoBom(buffer)) =>
        /\ detectedEncoding = StatedCascade(buffer, detectStats)
        /\ (buffer = TwoHangulPairs => detectedEncoding = "EUC-KR")

C7_Witness ==
    /\ Detected
    /\ buffer = TwoHangulPairs
    /\ detectStats.eucKrScore > detectStats.utf8Score
    /\ detectedEncoding = "EUC-KR"

\* C8: a sample of any length, the empty one included, in which every byte is
\* <= 0x7F is detected as UTF-8.
C8_PureAsciiIsUtf8 ==
    (Detected /\ PureAscii(buffer)) => detectedEncoding = "UTF-8"

C8_Witness ==
    /\ Detected
    /\ Len(buffer) >= 2
    /\ PureAscii(buffer)
    /\ detectedEncoding = "UTF-8"

\* C9: a sample that starts with EF BB BF is detected as UTF-8 whatever follows.
C9_Utf8BomWins ==
    (Detected /\ HasUtf8Bom(buffer)) => detectedEncoding = "UTF-8"

\* The bytes after the BOM score as EUC-KR and hold an invalid UTF-8 sequence
C9_Witness ==
    /\ Detected
    /\ HasUtf8Bom(buffer)
    /\ Decide(ScanStats(buffer)) = "EUC-KR"
    /\ Decide(ScanStats(SubSeq(buffer, 4, Len(buffer)))) = "EUC-KR"
    /\ detectedEncoding = "UTF-8"

\* C10: a sample of two or more bytes that starts with FE FF is detected as
\* UTF-16BE, one that starts with FF FE as UTF-16LE, also when it is exactly
\* two bytes long.
C10_Utf16Bom ==
    Detected =>
        /\ (HasUtf16BeBom(buffer) => detectedEncoding = "UTF-16BE")
        /\ (HasUtf16LeBom(buffer) => detectedEncoding = "UTF-16LE")

-----------------------------------------------------------------------------
(* Claims about the search, checked under SpecSearch and SpecCursor *)

Searched == lastCall = "performSearch" /\ searchInput # <<>> /\ currentContent # <<>>

Triples(results) ==
    [k \in 1..Len(results) |->
        [index |-> results[k].index, length |-> results[k].length,
         text |-> results[k].text]]

\* A query with no regex metacharacter and no newline
PlainQuery(q) == q # <<>> /\ \A k \in 1..Len(q) : q[k] \notin RegExpSpecials \cup {NL}

WholeTextResults ==
    findInText(searchInput, NULL, 0, currentContent, virtualScrolling)

\* C1: for every document, chunkSize and non-empty query with no regex
\* metacharacter and no newline, the chunked search yields the same ordered
\* (index, length, text) sequence as findInText run once on the whole content,
\* for every chunk layout, a last chunk of one empty line included.
C1_ChunkedSearchEqualsWhole ==
    (Searched /\ virtualScrolling.enabled /\ PlainQuery(searchInput)) =>
        Triples(searchResults) = Triples(WholeTextResults)

\* The query read as a literal, case-insensitively, occurs in text at position p
LiteralAt(q, text, p) ==
    /\ p + Len(q) <= Len(text)
    /\ \A j \in 1..Len(q) : ToUpper(text[p + j]) = ToUpper(q[j])

\* C5: findInText treats a non-empty query as a literal, case-insensitively:
\* every match is an occurrence of the query up to case, every occurrence is
\* covered by a match, the match indexes increase strictly and the matches do
\* not overlap.  For Hello/world/Hello/again and the query hello the result is
\* two matches, at offsets 0 and 12.
C5_LiteralOrderedMatches ==
    (Searched /\ ~virtualScrolling.enabled) =>
        LET q == searchInput
            t == currentContent
            r == searchResults
        IN  /\ \A k \in 1..Len(r) :
                  /\ r[k].length = Len(q)
                  /\ r[k].index >= 0
                  /\ LiteralAt(q, t, r[k].index)
                  /\ r[k].text = Slice(t, r[k].index, r[k].index + r[k].length)
            /\ \A k \in 1..(Len(r) - 1) :
                  /\ r[k].index < r[k + 1].index
                  /\ r[k].index + r[k].length <= r[k + 1].index
            /\ \A p \in 0..(Len(t) - Len(q)) :
                  LiteralAt(q, t, p) =>
                      \E k \in 1..Len(r) :
                          r[k].index <= p /\ p < r[k].index + r[k].length
            /\ (t = HelloText /\ q = HelloQuery) =>
                  Triples(r) =
                      <<[index |-> 0, length |-> 5, text |-> <<"H", "e", "l", "l", "o">>],
                        [index |-> 12, length |-> 5, text |-> <<"H", "e", "l", "l", "o">>]>>

\* A dot in the query found as a dot only, next to a match that differs in case
C5_Witness ==
    /\ Searched
    /\ ~virtualScrolling.enabled
    /\ currentContent = <<"a", ".", "A">>
    /\ searchInput = <<".", "a">>
    /\ Len(searchResults) = 1
    /\ searchResults[1].index = 1
    /\ searchResults[1].text = <<".", "A">>

\* The last n calls recorded are all op
LastCallsAre(op, n) ==
    /\ Len(navHistory) >= n
    /\ \A j \in (Len(navHistory) - n + 1)..Len(navHistory) : navHistory[j].op = op

\* C4: with N >= 1 matches and the cursor at i in [0, N-1], N nextSearch calls in
\* a row bring the cursor back to i, and so do N previousSearch calls; nextSearch
\* followed by previousSearch is the identity; with no match both calls leave
\* currentSearchIndex at -1 and searchResults empty.
C4_CursorWraparound ==
    LET n == Len(searchResults)
        k == Len(navHistory)
    IN  /\ \A op \in {"next", "previous"} :
              (n >= 1 /\ LastCallsAre(op, n) /\ navHistory[k - n + 1].cursor \in 0..(n - 1))
                  => currentSearchIndex = navHistory[k - n + 1].cursor
        /\ (n >= 1 /\ k >= 2 /\ navHistory[k - 1].op = "next"
                   /\ navHistory[k].op = "previous"
                   /\ navHistory[k - 1].cursor \in 0..(n - 1))
              => currentSearchIndex = navHistory[k - 1].cursor
        /\ \A j \in 1..k :
              navHistory[j].count = 0 =>
                  /\ navHistory[j].cursor = -1
                  /\ n = 0
                  /\ currentSearchIndex = -1

\* Three nextSearch calls over three matches, started from the middle match
C4_Witness ==
    /\ Len(searchResults) = 3
    /\ LastCallsAre("next", 3)
    /\ navHistory[Len(navHistory) - 2].cursor = 1
    /\ currentSearchIndex = 1

-----------------------------------------------------------------------------
(* Claims about pages and chunks, checked under SpecLayout and SpecPosition *)

DocLines == SplitLines(currentContent)

CoverOffset == IF isElectron THEN 1 ELSE 0

NonCoverPages == SelectSeq(paging.pages, LAMBDA pg : ~pg.isCover)

PageLines(pages) == Flatten([k \in 1..Len(pages) |-> pages[k].lines])

\* C2: the lines of the non-cover pages built by preparePagingData, concatenated
\* in page order, are the document's lines; page k (1-based, cover excluded)
\* holds lines [(k-1)*linesPerPage, min(k*linesPerPage, lineCount)).
C2_PagesPartitionLines ==
    lastCall = "preparePagingData" =>
        LET lpp == paging.linesPerPage
            n   == Len(DocLines)
        IN  /\ PageLines(NonCoverPages) = DocLines
            /\ \A k \in 1..Len(NonCoverPages) :
                  /\ (k - 1) * lpp < n
                  /\ NonCoverPages[k].lines =
                         Slice(DocLines, (k - 1) * lpp, Min(k * lpp, n))
                  /\ NonCoverPages[k].pageNumber = k
            /\ \A i \in 1..Len(paging.pages) :
                  paging.pages[i].isCover <=> (isElectron /\ i = 1)

\* A cover page, then full pages and a shorter last page
C2_Witness ==
    /\ lastCall = "preparePagingData"
    /\ isElectron
    /\ paging.linesPerPage = 2
    /\ Len(DocLines) = 5
    /\ Len(paging.pages) = 4
    /\ Len(paging.pages[4].lines) = 1

\* C3: the chunks built by enableVirtualScrolling partition the line range:
\* chunk i holds lines [i*chunkSize, min((i+1)*chunkSize, lineCount)), every line
\* index belongs to exactly one chunk, totalChunks = ceil(lineCount/chunkSize)
\* and no chunk is empty.
C3_ChunksPartitionLines ==
    lastCall = "enableVirtualScrolling" =>
        LET cs     == virtualScrolling.chunkSize
            chunks == virtualScrolling.chunks
            n      == Len(DocLines)
        IN  /\ virtualScrolling.enabled
            /\ virtualScrolling.totalChunks = CeilDiv(n, cs)
            /\ Len(chunks) = virtualScrolling.totalChunks
            /\ \A i \in 0..(Len(chunks) - 1) :
                  /\ chunks[i + 1].index = i
                  /\ i * cs < n
                  /\ chunks[i + 1].lines = Slice(DocLines, i * cs, Min((i + 1) * cs, n))
                  /\ Len(chunks[i + 1].lines) >= 1
            /\ \A l \in 0..(n - 1) :
                  Cardinality({i \in 0..(Len(chunks) - 1) :
                                  i * cs <= l /\ l < i * cs + Len(chunks[i + 1].lines)}) = 1

\* Full chunks and a shorter last chunk
C3_Witness ==
    /\ lastCall = "enableVirtualScrolling"
    /\ virtualScrolling.chunkSize = 2
    /\ Len(DocLines) = 5
    /\ virtualScrolling.totalChunks = 3
    /\ Len(virtualScrolling.chunks[3].lines) = 1

PagingAt(page, lpp) == [paging EXCEPT !.currentPage = page, !.linesPerPage = lpp]

\* C6: getPageFromLine(line) = floor(line/linesPerPage) + 1, plus 1 with the
\* cover; getFirstLineFromCurrentPage() = (currentPage - coverOffset - 1) *
\* linesPerPage clamped to 0.  For a content page p, lineToPage(pageToFirstLine(p))
\* = p; for a line l, pageToFirstLine(lineToPage(l)) = l - (l mod linesPerPage),
\* less than one page away; with linesPerPage = 30 and no cover line 450 is on
\* page 16 and page 16 starts at line 450.
C6_LinePageTranslation ==
    LET lpp == paging.linesPerPage
    IN  /\ lastCall = "getPageFromLine" =>
              /\ lastPagePosition = (lineNumber \div lpp) + 1 + CoverOffset
              /\ getFirstLineFromCurrentPage(PagingAt(lastPagePosition, lpp), isElectron)
                     = lineNumber - (lineNumber % lpp)
              /\ lineNumber
                     - getFirstLineFromCurrentPage(PagingAt(lastPagePosition, lpp), isElectron)
                     \in 0..(lpp - 1)
        /\ lastCall = "getFirstLineFromCurrentPage" =>
              /\ lastScrollTargetLine = Max(0, (paging.currentPage - CoverOffset - 1) * lpp)
              /\ paging.currentPage > CoverOffset =>
                     getPageFromLine(lastScrollTargetLine, paging, isElectron)
                         = paging.currentPage
              /\ paging.currentPage <= CoverOffset => lastScrollTargetLine = 0
        /\ getPageFromLine(450, PagingAt(1, LinesPerPage), FALSE) = 16
        /\ getFirstLineFromCurrentPage(PagingAt(16, LinesPerPage), FALSE) = 450

\* The first line of a content page behind the cover, after a line was translated
C6_Witness ==
    /\ lastCall = "getFirstLineFromCurrentPage"
    /\ isElectron
    /\ paging.currentPage = 3
    /\ paging.linesPerPage = 2
    /\ lastScrollTargetLine = 2
    /\ lineNumber = 5
    /\ lastPagePosition = 4

\* The example document of the page count: 3500 lines
ExampleLines == [k \in 1..3500 |-> <<"a">>]

\* preparePagingData on it, 30 lines per page, no cover
ExamplePaging == preparePagingData(NewPaging, ExampleLines, FALSE)

\* C11: after preparePagingData on n lines, totalPages = ceil(n/linesPerPage)
\* without a cover; with the cover (Electron) one entry with no lines and
\* isCover = true is prepended and totalPages = ceil(n/linesPerPage) + 1; the
\* last content page holds n - (ceil(n/linesPerPage) - 1) * linesPerPage lines.
\* For 3500 lines, 30 lines per page and no cover: 117 pages, the last of 20 lines.
C11_PageCount ==
    /\ lastCall = "preparePagingData" =>
          LET lpp   == paging.linesPerPage
              n     == Len(DocLines)
              count == CeilDiv(n, lpp)
          IN  /\ ~isElectron => /\ paging.totalPages = count
                                /\ \A i \in 1..Len(paging.pages) : ~paging.pages[i].isCover
              /\ isElectron => /\ paging.totalPages = count + 1
                               /\ paging.pages[1].lines = <<>>
                               /\ paging.pages[1].isCover
                               /\ Len(NonCoverPages) = count
              /\ Len(paging.pages[Len(paging.pages)].lines) = n - (count - 1) * lpp
    /\ ExamplePaging.totalPages = 117
    /\ Len(ExamplePaging.pages[117].lines) = 20
    /\ \A k \in 1..116 : Len(ExamplePaging.pages[k].lines) = 30

\* With the cover: four lines at three per page make a cover and two pages
C11_Witness ==
    /\ lastCall = "preparePagingData"
    /\ isElectron
    /\ paging.linesPerPage = 3
    /\ Len(DocLines) = 4
    /\ paging.totalPages = 3
    /\ Len(paging.pages[3].lines) = 1

\* What a step of nextPage or previousPage does to the page position
PageTurnStep ==
    /\ lastCall' = "nextPage" =>
           paging'.currentPage = (IF paging.currentPage = paging.totalPages
                                  THEN paging.currentPage
                                  ELSE paging.currentPage + 1)
    /\ lastCall' = "previousPage" =>
           paging'.currentPage = (IF paging.currentPage = 1
                                  THEN paging.currentPage
                                  ELSE paging.currentPage - 1)
    /\ lastCall' \in {"nextPage", "previousPage"} =>
           paging'.totalPages = paging.totalPages

\* C12: on a displayed document every sequence of nextPage and previousPage
\* calls keeps paging.currentPage in [1, paging.totalPages]; nextPage at the last
\* page and previousPage at the first page leave it unchanged, every other call
\* changes it by exactly +1 (nextPage) or -1 (previousPage).
C12_PageTurnClamped ==
    /\ [](paging.currentPage \in 1..paging.totalPages)
    /\ [][PageTurnStep]_vars

\* nextPage was called on a document of a single page, and left it there
C12_Witness ==
    /\ lastCall = "nextPage"
    /\ ~isElectron
    /\ paging.totalPages = 1
    /\ paging.currentPage = 1

-----------------------------------------------------------------------------
(* Claims about readFileContent, checked under SpecRead *)

-----------------------------------------------------------------------------
(* Claims about the scroll view, checked under SpecScroll and SpecThreshold *)

RenderedChunks == {i \in 0..(Len(virtualScrolling.chunks) - 1) :
                      virtualScrolling.chunks[i + 1].rendered}

\* The chunks whose lines include line l
ChunksOfLine(l) ==
    {i \in 0..(Len(virtualScrolling.chunks) - 1) :
        /\ i * virtualScrolling.chunkSize <= l
        /\ l < i * virtualScrolling.chunkSize + Len(virtualScrolling.chunks[i + 1].lines)}

\* C17: for every scroll offset in [0, totalLines * 20] and every container
\* height above 0, after handleVirtualScroll the rendered chunks are exactly the
\* chunks with index in [startChunk, endChunk], startChunk =
\* floor(floor(scrollTop/20)/chunkSize), endChunk =
\* min(ceil(ceil((scrollTop+height)/20)/chunkSize), totalChunks-1): chunks
\* outside are evicted, chunks inside are rendered, and every document line in
\* the visible line range belongs to exactly one rendered chunk.
C17_RenderedChunksAreTheRange ==
    lastCall = "handleVirtualScroll" =>
        LET cs         == virtualScrolling.chunkSize
            n          == Len(DocLines)
            startLine  == scrollTop \div 20
            endLine    == (scrollTop + clientHeight + 19) \div 20
            startChunk == startLine \div cs
            endChunk   == Min((endLine + cs - 1) \div cs, virtualScrolling.totalChunks - 1)
        IN  /\ RenderedChunks = {i \in 0..(virtualScrolling.totalChunks - 1) :
                                    startChunk <= i /\ i <= endChunk}
            /\ \A l \in 0..(n - 1) :
                  (startLine <= l /\ l <= endLine) =>
                      Cardinality(ChunksOfLine(l) \cap RenderedChunks) = 1

\* Scrolled to the third chunk: the first chunk, rendered at the start, is
\* evicted and the last one is rendered
C17_Witness ==
    /\ lastCall = "handleVirtualScroll"
    /\ virtualScrolling.chunkSize = 1
    /\ virtualScrolling.totalChunks = 5
    /\ scrollTop = 60
    /\ clientHeight = 20
    /\ RenderedChunks = {3, 4}

\* C18: after renderScrollView virtualScrolling.enabled is true exactly when
\* the content has more than 100,000 characters or more than 1,000 lines; a
\* document of exactly 100,000 characters and 1,000 lines is shown as one block
\* with no chunks; one more character or one more line enables chunking.
C18_ChunkingThreshold ==
    lastCall = "renderScrollView" =>
        /\ virtualScrolling.enabled <=>
               (Len(currentContent) > 100000 \/ Len(DocLines) > 1000)
        /\ isLargeFile = virtualScrolling.enabled
        /\ ~virtualScrolling.enabled =>
               scrollContent = <<[tag |-> "pre", text |-> currentContent]>>
        /\ virtualScrolling.enabled =>
               /\ scrollContent[1].tag = "virtual-scroll-container"
               /\ Len(virtualScrolling.chunks) = CeilDiv(Len(DocLines), ChunkSize)
        /\ (Len(currentContent) = 100000 /\ Len(DocLines) = 1000) =>
               ~virtualScrolling.enabled

\* A document of exactly 1,000 lines, rendered: it is shown as one block
C18_Witness ==
    /\ lastCall = "renderScrollView"
    /\ Len(DocLines) = 1000
    /\ Len(currentContent) = 999
    /\ ~virtualScrolling.enabled
    /\ Len(scrollContent) = 1

-----------------------------------------------------------------------------
(* Claims about the page list and the view modes, checked under SpecView *)

\* The text of every page materialised in pageBook, covers left out
NonCoverTexts ==
    LET body == SelectSeq(pageBook, LAMBDA p : ~p.isCover)
    IN  [i \in 1..Len(body) |-> body[i].text]

\* C20: in every state in which a document is displayed paging.pages has
\* paging.totalPages entries, and whenever page mode is rendered for it
\* (displayFile in page mode, setViewMode('page')) the page list materialised by
\* createPages / createSimplePages has paging.totalPages entries whose
\* non-cover pages concatenate to the lines of the document.
C20_PageListMatchesTotalPages ==
    currentContent # <<>> =>
        /\ Len(paging.pages) = paging.totalPages
        /\ viewMode = "page" =>
               /\ Len(pageBook) = paging.totalPages
               /\ Join(NonCoverTexts) = currentContent

\* C15: in every interleaving of setViewMode with the callbacks it defers, a
\* callback scheduled by an earlier switch has no effect after a later one:
\* while viewMode is 'scroll' paging.turnInstance is null and no page-mode
\* callback (the Turn.js initialisation, the page turn) writes
\* paging.currentPage, and while viewMode is 'page' no scroll-restore callback
\* runs.
C15_EarlierCallbacksHaveNoEffect ==
    /\ viewMode = "scroll" => paging.turnInstance = NULL
    /\ (timerLog.callback \in {"turnInit", "pageTurn"} /\ timerLog.wrotePage) =>
           timerLog.viewMode = "page"
    /\ timerLog.callback = "restoreScrollPositionFromLine" =>
           timerLog.viewMode = "scroll"

-----------------------------------------------------------------------------
(* Claims about the library and re-decoding, checked under SpecLibrary *)

\* A re-decode of changeEncoding has just replaced currentContent
Redecoded == lastCall \in {"changeEncoding resolved", "reader.onload"}

\* C13: after changeEncoding completes with re-decoded content, in any of its
\* branches that replace currentContent, searchResults is empty and
\* currentSearchIndex is -1: no match computed against the text of the previous
\* encoding survives the re-decode.
C13_RedecodeClearsSearch ==
    Redecoded => (searchResults = <<>> /\ currentSearchIndex = -1)

\* The book this.selectedBook refers to
Selected == books[selectedBook]

\* C14: in every interleaving of changeEncoding, showLibrary, openBook and the
\* completion of a re-decode, the content and the encoding stored for the
\* selected book are the ones decoded from that book's own bytes, and
\* currentContent is that content: a completion that arrives after another
\* book has been opened changes neither that book nor currentContent.
C14_LateRedecodeLeavesOtherBookAlone ==
    (selectedBook # NoBook /\ Selected.file # NoFile) =>
        /\ Selected.content = readAsText(files[Selected.file].bytes, Selected.encoding)
        /\ currentContent = Selected.content

\* A read has just failed: readFileContent rejected inside addBookFromFile,
\* readFileWithEncoding rejected inside changeEncoding, or its FileReader
\* ended with an error
ReadFailed ==
    lastCall' \in {"addBookFromFile rejected", "changeEncoding rejected", "reader error"}

FailedReadStep ==
    ReadFailed =>
        /\ UNCHANGED <<library, books, selectedBook, currentContent, paging,
                       virtualScrolling, isLargeFile, pageBook, scrollContent>>
        /\ lastAlert' = "showError"
        /\ loading' = FALSE

\* C16: when a file read or a re-decode fails, the library, the selected
\* book's content and encoding, currentContent and the paging and chunk state
\* are what they were before, the error is reported and the loading flag ends
\* cleared.
C16_FailedReadLeavesStateAndReports == [][FailedReadStep]_vars

-----------------------------------------------------------------------------
(* Claims about the detector on EUC-KR and on UTF-8 text, under SpecDetect *)

\* buf from position i (1-based) on is ASCII bytes and EUC-KR complete-Hangul
\* pairs: first byte B0..C8, second byte A1..FE
RECURSIVE HangulPairsFrom(_, _)
HangulPairsFrom(buf, i) ==
    IF i > Len(buf) THEN TRUE
    ELSE IF buf[i] <= 127 THEN HangulPairsFrom(buf, i + 1)
    ELSE /\ buf[i] >= 176 /\ buf[i] <= 200
         /\ i + 1 <= Len(buf)
         /\ buf[i + 1] >= 161 /\ buf[i + 1] <= 254
         /\ HangulPairsFrom(buf, i + 2)

EucKrHangulText(buf) == HangulPairsFrom(buf, 1) /\ ~PureAscii(buf)

\* C27: for every buffer without BOM that is a concatenation of one or more
\* EUC-KR complete-Hangul byte pairs, optionally mixed with ASCII bytes,
\* detectEncodingFromBuffer returns EUC-KR.
C27_HangulPairsAreEucKr ==
    (Detected /\ NoBom(buffer) /\ EucKrHangulText(buffer)) =>
        detectedEncoding = "EUC-KR"

IsCont(b) == b >= 128 /\ b <= 191

\* buf from position i (1-based) on is well-formed UTF-8 (no overlong form, no
\* surrogate, nothing above U+10FFFF) that is not cut off
RECURSIVE WellFormedUtf8From(_, _)
WellFormedUtf8From(buf, i) ==
    IF i > Len(buf) THEN TRUE
    ELSE LET b == buf[i]
         IN  IF b <= 127 THEN WellFormedUtf8From(buf, i + 1)
             ELSE IF b >= 194 /\ b <= 223
             THEN /\ i + 1 <= Len(buf)
                  /\ IsCont(buf[i + 1])
                  /\ WellFormedUtf8From(buf, i + 2)
             ELSE IF b >= 224 /\ b <= 239
             THEN /\ i + 2 <= Len(buf)
                  /\ IsCont(buf[i + 1]) /\ IsCont(buf[i + 2])
                  /\ (b = 224 => buf[i + 1] >= 160)
                  /\ (b = 237 => buf[i + 1] <= 159)
                  /\ WellFormedUtf8From(buf, i + 3)
             ELSE IF b >= 240 /\ b <= 244
             THEN /\ i + 3 <= Len(buf)
                  /\ IsCont(buf[i + 1]) /\ IsCont(buf[i + 2]) /\ IsCont(buf[i + 3])
                  /\ (b = 240 => buf[i + 1] >= 144)
                  /\ (b = 244 => buf[i + 1] <= 143)
                  /\ WellFormedUtf8From(buf, i + 4)
             ELSE FALSE

MultiByteUtf8Text(buf) == WellFormedUtf8From(buf, 1) /\ ~PureAscii(buf)

\* C28: for every buffer without BOM that is well-formed, untruncated UTF-8
\* with at least one sequence of 2, 3 or 4 bytes, detectEncodingFromBuffer
\* returns UTF-8.
C28_MultiByteUtf8IsUtf8 ==
    (Detected /\ NoBom(buffer) /\ MultiByteUtf8Text(buffer)) =>
        detectedEncoding = "UTF-8"

-----------------------------------------------------------------------------
(* Claims about readFileInChunks, checked under SpecRead and SpecSlices *)

\* C29: for every byte sequence that is valid UTF-8 the text readFileInChunks
\* produces, every slice decoded on its own and the texts concatenated, equals
\* the text of the whole sequence decoded at once, wherever the slice
\* boundaries fall relative to the multi-byte characters.
C29_SlicedDecodeEqualsWhole ==
    (readResult.path = "sliced" /\ WellFormedUtf8From(file.bytes, 1)) =>
        readResult.content = readAsText(file.bytes, "UTF-8")

\* The byte range of slice k (from 1), slices being ReadSliceLen bytes long
SliceRange(k) == <<(k - 1) * ReadSliceLen, Min(k * ReadSliceLen, file.size)>>

SlicesReadInOrder ==
    \A k \in 1..Len(chunkRead.reads) : chunkRead.reads[k] = SliceRange(k)

SliceReadsOf(size) == CeilDiv(size, ReadSliceLen)

\* The slice reads that have completed with a text
SlicesDone ==
    IF chunkRead.status = "rejected" THEN Len(chunkRead.reads) - 1
    ELSE Len(chunkRead.reads)

\* The slices have been read in increasing order and appended in that order,
\* the pauses came after the 10th, 20th, ... slice and nowhere else, a read
\* that returned made ceil(size / slice) slice reads that cover the file and
\* returned their texts, a read that was rejected returned nothing
SlicedReadSafe ==
    /\ SlicesReadInOrder
    /\ Len(chunkRead.reads) <= SliceReadsOf(file.size)
    /\ chunkRead.yields = [j \in 1..(SlicesDone \div 10) |-> 10 * j]
    /\ chunkRead.yielding => (SlicesDone > 0 /\ SlicesDone % 10 = 0)
    /\ chunkRead.content =
           Flatten([k \in 1..SlicesDone |->
                       readAsText(SubSeq(file.bytes, SliceRange(k)[1] + 1,
                                         SliceRange(k)[2]), "UTF-8")])
    /\ chunkRead.status = "resolved" =>
           /\ Len(chunkRead.reads) = SliceReadsOf(file.size)
           /\ chunkRead.reads[Len(chunkRead.reads)][2] = file.size
           /\ chunkRead.result = chunkRead.content
    /\ chunkRead.status # "resolved" => chunkRead.result = NULL

SlicedReadEnded == chunkRead.status \in {"resolved", "rejected"}

\* C25: for every file size above 0 readFileInChunks ends, when every slice
\* read completes, after exactly ceil(size / slice length) slice reads; the
\* slices are read in increasing order, cover the file with no gap and no
\* overlap and are appended in that order; the loop pauses exactly after the
\* 10th, 20th, 30th, ... slice; when a slice read fails the whole read rejects
\* and returns no partial content.
C25_SlicedReadTerminates == []SlicedReadSafe /\ <>SlicedReadEnded

\* A file of more than 20 slices has been read to the end, with two pauses
C25_Witness ==
    /\ chunkRead.status = "resolved"
    /\ Len(chunkRead.reads) > 20
    /\ chunkRead.yields = <<10, 20>>
    /\ Len(chunkRead.result) = file.size

-----------------------------------------------------------------------------
(* Claims about closing the search and leaving the viewer, under SpecLibrary *)

\* C26: with the element table initializeElements builds, closeSearch always
\* ends with searchResults empty and currentSearchIndex -1, and showLibrary,
\* which calls it, always runs to its end: after showLibrary paging.pages is
\* empty, paging.turnInstance is null and virtualScrolling.enabled is false.
C26_CloseSearchAndShowLibraryComplete ==
    /\ lastCall \in {"closeSearch", "showLibrary"} =>
           /\ lastError = "none"
           /\ searchResults = <<>>
           /\ currentSearchIndex = -1
    /\ lastCall = "showLibrary" =>
           /\ paging.pages = <<>>
           /\ paging.turnInstance = NULL
           /\ ~virtualScrolling.enabled

-----------------------------------------------------------------------------
(* Claims about the chunks of a displayed document, under SpecChunkView *)

\* C21: in every state in which virtualScrolling.enabled is true the lines of
\* virtualScrolling.chunks, concatenated in index order, are currentContent
\* split on newline, whatever sequence of displaying a document (openBook,
\* changeEncoding) and setViewMode led there.
C21_ChunksAreTheCurrentDocument ==
    virtualScrolling.enabled =>
        Flatten([i \in 1..Len(virtualScrolling.chunks) |->
                    virtualScrolling.chunks[i].lines]) = SplitLines(currentContent)

-----------------------------------------------------------------------------
(* Claims about the selected book and the library, under SpecLibrary *)

SelectedBookIsInLibrary ==
    currentView = "viewer" => \E i \in 1..Len(library) : library[i] = selectedBook

NoTwoEntriesAlike ==
    \A i, j \in 1..Len(library) :
        (/\ books[library[i]].name = books[library[j]].name
         /\ books[library[i]].size = books[library[j]].size) => i = j

\* C30: whenever the viewer is shown the selected book is one of the entries of
\* the library, the same object and not a copy, after any sequence of
\* addBookToLibrary, deleteBook, openBook and showLibrary; and no two entries
\* of the library have the same name and the same size.
C30_SelectedBookIsALibraryEntry ==
    SelectedBookIsInLibrary /\ NoTwoEntriesAlike

\* Every book that still has its file holds the text of that file decoded
\* with the encoding of its label
LabelIsTheDecoding ==
    \A b \in 1..Len(books) :
        books[b].file # NoFile =>
            books[b].content = readAsText(files[books[b].file].bytes, books[b].encoding)

\* A step that changes the label of a book is the completion of a re-decode,
\* which stores the text decoded with the new label
LabelChangesWithRedecode ==
    \A b \in 1..Len(books) :
        books'[b].encoding # books[b].encoding =>
            lastCall' \in {"changeEncoding resolved", "reader.onload"}

\* C23: the encoding label of a book changes only together with a re-decode of
\* its content: after any sequence of addBook, saving and reloading the
\* library, openBook and changeEncoding, the encoding of a book is the
\* encoding its content was decoded with.
C23_LabelFollowsDecoding ==
    []LabelIsTheDecoding /\ [][LabelChangesWithRedecode]_vars

-----------------------------------------------------------------------------
(* Claims about the marking of the matches, under SpecCursor *)

\* The matches lie in the text one after the other without overlap
IncreasingMatches(results, content) ==
    /\ \A k \in 1..Len(results) :
          /\ results[k].index >= 0
          /\ results[k].index + results[k].length <= Len(content)
          /\ results[k].text =
                 SubSeq(content, results[k].index + 1, results[k].index + results[k].length)
    /\ \A k \in 1..(Len(results) - 1) :
          results[k].index + results[k].length <= results[k + 1].index

\* The text with every match replaced by its span, built from the front:
\* the text between two matches is kept as it is
RECURSIVE MarkedFrom(_, _, _, _, _)
MarkedFrom(content, results, idx, k, pos) ==
    IF k > Len(results) THEN SubSeq(content, pos + 1, Len(content))
    ELSE SubSeq(content, pos + 1, results[k].index)
            \o Highlighted(results[k].text, k - 1 = idx)
            \o MarkedFrom(content, results, idx, k + 1,
                          results[k].index + results[k].length)

CursorMoved == lastCall \in {"nextSearch", "previousSearch"} /\ Len(searchResults) > 0

\* C24: for a list of matches that do not overlap and are in increasing order,
\* highlightSearchResults leaves as displayed text the original text with every
\* match replaced by its marked span and no other character moved, the match
\* at currentSearchIndex and no other carrying the mark current; and
\* clearSearchHighlights then leaves currentContent as displayed text.
C24_MarkingReplacesMatchesOnly ==
    (CursorMoved /\ IncreasingMatches(searchResults, currentContent)) =>
        /\ highlightSearchResults(searchResults, currentSearchIndex, currentContent)
               = [threw |-> FALSE,
                  pre   |-> MarkedFrom(currentContent, searchResults,
                                       currentSearchIndex, 1, 0)]
        /\ clearSearchHighlights(currentContent)
               = [threw |-> FALSE, pre |-> currentContent]

-----------------------------------------------------------------------------
(* Claims about the position after a switch of the view mode, under SpecSwitch *)

\* The callbacks of the last setViewMode(mode) have all run: the last of them
\* is restorePagePosition or the page turn it scheduled
SwitchSettled(mode) ==
    /\ viewMode = mode
    /\ timers = {}
    /\ lastCall \in {"restore", "pageTurn"}

\* A page number brought into 1..totalPages, the cover of the double page
\* layout left out
ClampedPage(page, pg, electron) ==
    LET clamped == IF page < 1 THEN 1
                   ELSE IF page > pg.totalPages THEN pg.totalPages
                   ELSE page
    IN  IF electron /\ clamped = 1 THEN 2 ELSE clamped

PageFollowsLine ==
    SwitchSettled("page") =>
        paging.currentPage =
            ClampedPage(getPageFromLine(lineNumber, paging, isElectron), paging, isElectron)

LineFollowsPage ==
    SwitchSettled("scroll") =>
        lastScrollTargetLine = getFirstLineFromCurrentPage(paging, isElectron)

\* C22: once the callbacks of setViewMode('page'), called in scroll mode with
\* the visible line l, have all run with no other operation in between,
\* paging.currentPage is getPageFromLine(l) clamped to 1..totalPages and never
\* the cover; once those of setViewMode('scroll'), called on page p, have run,
\* the scroll target line is getFirstLineFromCurrentPage() for p; with Turn.js
\* and with the simple page mode.
C22_PositionSurvivesSwitch ==
    PageFollowsLine /\ LineFollowsPage

====
